---- MODULE Spec2Model ----
(***************************************************************************)
(* A model of rk9s's multi-cluster fan-out layer:                          *)
(*   - the row identity codec (model1: SplitMultiContextID / Join...),     *)
(*   - the per-context dynamic client cache (dao: dynClientFor),           *)
(*   - the three fan-out batches (dao: MultiContextList,                   *)
(*     MultiContextServerVersions; mc: RunParallel),                       *)
(*   - the helpers of mc (injectContext, FormatResults),                   *)
(*   - the connectivity supervisor (view: App.clusterUpdater,              *)
(*     App.refreshCluster, App.Halt, App.Resume).                          *)
(*                                                                         *)
(* One behaviour runs one scenario, chosen by Init in the variable op:     *)
(* the state spaces of the scenarios add up, they do not multiply.         *)
(*                                                                         *)
(* Go strings are sequences of one-character strings; "" is << >>.         *)
(* Goroutines of a batch are anonymous in the source: the variable pool    *)
(* is the bag of the live ones, each a record of its arguments and the     *)
(* place it has reached.                                                   *)
(***************************************************************************)
EXTENDS Integers, Sequences, FiniteSets, Bags, TLC

\* ------------------------------------------------------------------------
\* Bounds of the model

\* The longest row id Init draws.
MaxIdLen == 4
\* The longest context name or resource path handed to JoinMultiContextID.
MaxPartLen == 2
\* The longest list of distinct context names a batch is given.
MaxCtx == 3
\* The longest list of contexts of a batch in which a context never answers.
MaxHung == 2
\* The largest maxProc handed to RunParallel (the smallest is -1).
MaxProcArg == 2
\* The largest MaxConnRetry of the configuration.
MaxRetry == 2
\* How many times Resume is called in a session.
MaxLoops == 2
\* The longest argument list handed to injectContext on its own.
MaxArgs == 3
\* The longest list of results handed to FormatResults on its own.
MaxResults == 2
\* How many goroutines call dynClientFor in a session of the registry.
MaxCalls == 3
\* The longest list of names handed to SaveSelectedContexts.
MaxSel == 2
\* How many arrow keys are pressed in a session of the CRD tabs.
MaxTabs == 5

\* ------------------------------------------------------------------------
\* Program constants

\* The characters strings are made of: the separator's character, a letter
\* and the '/' of a resource path.
Chars == {"@", "x", "/"}

\* const MultiContextSep = "@@"
MultiContextSep == <<"@", "@">>

\* const mcMaxParallel = 10
mcMaxParallel == 10

\* const defaultMaxProc = 10
defaultMaxProc == 10

\* restCfg.Timeout = 5 * time.Second, in seconds
ProbeTimeout == 5

\* client.NA, the value of a context whose version is not known.
NA == <<"N/A">>

\* The context names of the kubeconfig.
CtxNames == <<"a", "b", "c", "d", "e">>

VARIABLES
    op,         \* the scenario this behaviour runs
    id,         \* codec: the row id at hand
    joined,     \* codec: <<ctx, path>> when id came out of JoinMultiContextID, else << >>
    split,      \* codec: <<ctx, path>> = SplitMultiContextID(id) once taken, else << >>
    contexts,   \* batch: the contexts argument
    args,       \* RunParallel: the args argument
    maxProc,    \* RunParallel: the maxProc argument
    pc,         \* batch: where the calling goroutine is
    launched,   \* batch: how many iterations of the launch loop are complete
    sem,        \* batch: how many tokens the channel sem holds
    wg,         \* RunParallel: the counter of the WaitGroup
    ch,         \* batch: the content of the channel ch, oldest first
    pool,       \* batch: the bag of the goroutines started and not yet ended
    got,        \* batch: how many results the calling goroutine has received
    out,        \* MultiContextList: the slice out; ...ServerVersions: the map out
    results,    \* RunParallel: the slice results
    ret,        \* batch: what the call returned, << >> before it returns
    dynClientCache, \* the package's cache: context name -> client handle
    built,      \* how many clients have been constructed, per context name
    outcome,    \* history: the bag of <<ctx, succeeded>> of the tasks that have ended their work
    firstDone,  \* history, RunParallel: the index of the first task to store its result, 0 if none
    conRetry,   \* App.conRetry
    maxConnRetry, \* a.Config.K9s.MaxConnRetry
    ExitStatus, \* the package variable ExitStatus
    exit,       \* << >> while the process runs, <<code>> once BailOut(code) has ended it
    top,        \* a.Content.Top(): "nil" on an empty stack, else the top view, "started" or "stopped"
    flash,      \* the status the header shows
    loops,      \* the clusterUpdater goroutines: where each is, and whether its ctx is cancelled
    cancelFn,   \* App.cancelFn: 0 for nil, else the loop whose ctx it cancels
    failStreak, \* history: how many CheckConnectivity calls in a row have failed (counted up to StreakCap)
    argv,       \* injectContext: the args argument
    contextArg, \* injectContext: the context argument
    local,      \* injectContext: the slice it returned, << >> before it returns
    toFormat,   \* FormatResults: the results argument
    report,     \* FormatResults: <<the string it returned>>, << >> before it returns
    silent,     \* MultiContextServerVersions: the contexts whose server never answers
    calls,      \* registry: how many goroutines have called dynClientFor
    resets,     \* registry: how many times ResetDynClientCache has run
    resetAt,    \* history, registry: the value of built when ResetDynClientCache last ran
    handed,     \* history, registry: per context name, the handles dynClientFor has returned since the last reset
    file,       \* the file at SelectedContextsPath(): << >> when it does not exist, else <<its bytes>>
    saving,     \* SaveSelectedContexts: << >> before it is called, else where the call is and the bytes not yet written
    loaded,     \* LoadSelectedContexts: << >> before it returns, else <<the list, the error>> it returned
    prior,      \* history: <<the list>> the file was written with before the scenario began, << >> if it was never written
    aliasKey,   \* CRD tabs: the crdGroupIndex key of the view on screen
    nav,        \* CRD tabs: << >> before an arrow key, else what nextCRDInGroup or prevCRDInGroup last returned
    trail       \* history, CRD tabs: the arrow keys pressed and the key of the view each led to

codecVars == <<id, joined, split>>
batchVars == <<contexts, args, maxProc, pc, launched, sem, wg, ch, pool, got, out,
               results, ret, dynClientCache, built, outcome, firstDone>>
connVars == <<conRetry, maxConnRetry, ExitStatus, exit, top, flash, loops, cancelFn,
              failStreak>>
textVars == <<argv, contextArg, local, toFormat, report>>
regVars == <<calls, resets, resetAt, handed>>
fileVars == <<file, saving, loaded, prior>>
tabVars == <<aliasKey, nav, trail>>
auxVars == <<textVars, silent, regVars, fileVars, tabVars>>
vars == <<op, auxVars, codecVars, batchVars, connVars>>

\* ------------------------------------------------------------------------
\* Helpers

\* The strings over Chars of length at most n.
StrsUpTo(n) == UNION {[1..k -> Chars] : k \in 0..n}

Range(s) == {s[k] : k \in DOMAIN s}

\* No batch is running.
BatchIdle ==
    /\ contexts = <<>>
    /\ args = <<>>
    /\ maxProc = 0
    /\ pc = "idle"
    /\ launched = 0
    /\ sem = 0
    /\ wg = 0
    /\ ch = <<>>
    /\ pool = EmptyBag
    /\ got = 0
    /\ out = <<>>
    /\ results = <<>>
    /\ ret = <<>>
    /\ dynClientCache = <<>>
    /\ built = [c \in Range(CtxNames) |-> 0]
    /\ outcome = EmptyBag
    /\ firstDone = 0

\* The history variable failStreak stops counting here.
StreakCap == IF maxConnRetry > 0 THEN maxConnRetry ELSE 1

\* A clusterUpdater goroutine that has not been started: at is the place the
\* goroutine has reached. Between the two statements of the failure branch
\* of refreshCluster c is its local c: "top" for the view on top of the
\* stack, "gone" for a view that no longer is ("nil" elsewhere). Until
\* refreshCluster has returned ok is the answer CheckConnectivity gave it
\* (TRUE elsewhere). While the loop waits in its select, delay is where the
\* duration of its timer came from: clusterRefresh or bf.NextBackOff().
NoLoop ==
    [at |-> "none", cancelled |-> FALSE, c |-> "nil", ok |-> TRUE,
     delay |-> "clusterRefresh"]

\* The supervisor is not part of the scenario.
ConnIdle ==
    /\ conRetry = 0
    /\ maxConnRetry = 1
    /\ ExitStatus = <<>>
    /\ exit = <<>>
    /\ top = "nil"
    /\ flash = <<"none">>
    /\ loops = [l \in 1..MaxLoops |-> NoLoop]
    /\ cancelFn = 0
    /\ failStreak = 0

\* Neither injectContext nor FormatResults is part of the scenario.
TextIdle ==
    /\ argv = <<>>
    /\ contextArg = ""
    /\ local = <<>>
    /\ toFormat = <<>>
    /\ report = <<>>

\* No caller of the registry is part of the scenario.
RegIdle ==
    /\ calls = 0
    /\ resets = 0
    /\ resetAt = [c \in Range(CtxNames) |-> 0]
    /\ handed = [c \in Range(CtxNames) |-> {}]

\* The file of the selected contexts is not part of the scenario.
FileIdle ==
    /\ file = <<>>
    /\ saving = <<>>
    /\ loaded = <<>>
    /\ prior = <<>>

\* No CRD view is part of the scenario.
TabIdle ==
    /\ aliasKey = <<>>
    /\ nav = <<>>
    /\ trail = <<>>

\* Every server answers, and nothing but the scenario's own component runs.
AuxIdle ==
    /\ TextIdle
    /\ RegIdle
    /\ TabIdle
    /\ FileIdle
    /\ silent = {}

\* ------------------------------------------------------------------------
\* Row identity codec

\* The loop of indexOf from index i0 (0-based, as in the source):
\*   for i := i0; i <= len(s)-len(sep); i++ { if s[i:i+len(sep)] == sep { return i } }
\*   return -1
RECURSIVE indexOfFrom(_, _, _)
indexOfFrom(s, sep, i0) ==
    IF i0 > Len(s) - Len(sep) THEN -1
    ELSE IF SubSeq(s, i0 + 1, i0 + Len(sep)) = sep THEN i0
    ELSE indexOfFrom(s, sep, i0 + 1)

\* Mutant of indexOf: the last occurrence instead of the first.
RECURSIVE indexOfLastFrom(_, _, _)
indexOfLastFrom(s, sep, i0) ==
    IF i0 < 0 THEN -1
    ELSE IF SubSeq(s, i0 + 1, i0 + Len(sep)) = sep THEN i0
    ELSE indexOfLastFrom(s, sep, i0 - 1)

indexOfLast(s, sep) == indexOfLastFrom(s, sep, Len(s) - Len(sep))

indexOf(s, sep) == indexOfFrom(s, sep, 0)

\* Mutant of SplitMultiContextID: an id without separator comes back as the context.
SplitAsContext(rowID) ==
    LET i0 == indexOf(rowID, MultiContextSep)
    IN  IF i0 >= 0
        THEN <<SubSeq(rowID, 1, i0),
               SubSeq(rowID, i0 + Len(MultiContextSep) + 1, Len(rowID))>>
        ELSE << rowID, <<>> >>

\* Mutant of SplitMultiContextID: the path starts one character late, as if the
\* separator were three characters long.
SplitPastSeparator(rowID) ==
    LET i0 == indexOf(rowID, MultiContextSep)
    IN  IF i0 >= 0
        THEN <<SubSeq(rowID, 1, i0),
               SubSeq(rowID, i0 + Len(MultiContextSep) + 2, Len(rowID))>>
        ELSE << <<>>, rowID >>

\* id[:i], id[i+len(MultiContextSep):] when the separator is found, else "", id.
SplitMultiContextID(rowID) ==
    LET i0 == indexOf(rowID, MultiContextSep)
    IN  IF i0 >= 0
        THEN <<SubSeq(rowID, 1, i0),
               SubSeq(rowID, i0 + Len(MultiContextSep) + 1, Len(rowID))>>
        ELSE << <<>>, rowID >>

\* ctx + MultiContextSep + path
JoinMultiContextID(ctx, path) == ctx \o MultiContextSep \o path

CodecIdle ==
    /\ id = <<>>
    /\ joined = <<>>
    /\ split = <<>>

InitCodec ==
    /\ op = "codec"
    /\ id \in StrsUpTo(MaxIdLen)
    /\ joined = <<>>
    /\ split = <<>>
    /\ BatchIdle
    /\ ConnIdle
    /\ AuxIdle

\* A caller builds the id of a multi-context row.
Join ==
    /\ op = "codec"
    /\ joined = <<>>
    /\ split = <<>>
    /\ \E c \in StrsUpTo(MaxPartLen), p \in StrsUpTo(MaxPartLen) :
          /\ id' = JoinMultiContextID(c, p)
          /\ joined' = <<c, p>>
    /\ UNCHANGED <<op, auxVars, split, batchVars, connVars>>

\* A caller routes a row action: it splits the row id.
Split ==
    /\ op = "codec"
    /\ split = <<>>
    /\ split' = SplitMultiContextID(id)
    /\ UNCHANGED <<op, auxVars, id, joined, batchVars, connVars>>

NextCodec == Join \/ Split

SpecCodec == InitCodec /\ [][NextCodec]_vars

\* ------------------------------------------------------------------------
\* Inputs and environment of the batches

\* The lists of n distinct context names, n <= MaxCtx.
DistinctLists == {SubSeq(CtxNames, 1, n) : n \in 0..MaxCtx}

\* The same context selected n times (LoadSelectedContexts keeps repeated lines).
Repeated(n) == [k \in 1..n |-> CtxNames[1]]

\* The lists a batch is given: distinct names, and one name twice.
ShortLists == DistinctLists \cup {Repeated(2)}

\* A list longer than the semaphore of MultiContextList is wide.
LongList == Repeated(mcMaxParallel + 1)

\* What the cluster of context c holds of the listed resource.
Items(c) ==
    CASE c = "a" -> <<"p1", "p2">>
      [] c = "b" -> <<"p1">>
      [] OTHER   -> <<>>

\* info.GitVersion of the cluster of context c.
GitVersion(c) == <<"v1.30", c>>

\* error values: nil, and an error with its text
NilErr == <<FALSE, <<>> >>
ErrorOf(msg) == <<TRUE, msg>>

\* m with m[k] = v
\* Mutant of MapPut: nothing is stored.
MapPutNothing(m, k, v) == m

MapPut(m, k, v) == [x \in DOMAIN m \cup {k} |-> IF x = k THEN v ELSE m[x]]

\* The bag b with one e more, one e less, and with one e turned into f.
Put(b, e) == b (+) SetToBag({e})
Take(b, e) == b (-) SetToBag({e})
Move(b, e, f) == Put(Take(b, e), f)

\* The goroutines of the bag.
Goroutines == BagToSet(pool)

\* A cache that holds a client for every context of cs, built by an earlier call.
Warm(cs) == [c \in Range(cs) |-> <<c, 0>>]

\* ------------------------------------------------------------------------
\* dynClientFor, on behalf of the goroutine w

\* dynClientCache.Load(ctxName): a hit returns the cached client.
dynClientForLoad(w) ==
    /\ w.at = "load"
    /\ pool' = Move(pool, w,
                    IF w.ctx \in DOMAIN dynClientCache
                    THEN [w EXCEPT !.dc = dynClientCache[w.ctx], !.at = "list"]
                    ELSE [w EXCEPT !.at = "build"])
    /\ UNCHANGED <<dynClientCache, built, ch, outcome, sem>>

\* The result a failed task sends: result{ctx: ctx, err: err}
ErrResult(c, why) == [ctx |-> c, objects |-> <<>>, err |-> ErrorOf(<<why, c>>)]

\* Mutant of CacheAfterFailure: a failure empties the cache.
CacheDroppedOnFailure(cache, c) == <<>>

\* The cache after dynClientFor has failed for the name c: both error paths
\* return before dynClientCache.Store.
CacheAfterFailure(cache, c) == cache

\* Mutant of dynClientForBuild: on an error the goroutine returns without
\* sending a result.
dynClientForBuildNoSend(w) ==
    /\ w.at = "build"
    /\ \E res \in {"rest config", "dynamic client", "ok"} :
          IF res = "ok"
          THEN /\ built' = [built EXCEPT ![w.ctx] = @ + 1]
               /\ pool' = Move(pool, w, [w EXCEPT !.dc = <<w.ctx, built[w.ctx] + 1>>,
                                                  !.at = "store"])
               /\ UNCHANGED <<ch, outcome, dynClientCache>>
          ELSE /\ pool' = Move(pool, w, [w EXCEPT !.at = "release"])
               /\ UNCHANGED <<ch, outcome, dynClientCache, built>>
    /\ UNCHANGED sem

\* cc.ClientConfig() and dynamic.NewForConfig(restCfg): either may fail, and then
\* the goroutine sends the error and returns; else a new client is at hand.
dynClientForBuild(w) ==
    /\ w.at = "build"
    /\ \E res \in {"rest config", "dynamic client", "ok"} :
          IF res = "ok"
          THEN /\ built' = [built EXCEPT ![w.ctx] = @ + 1]
               /\ pool' = Move(pool, w, [w EXCEPT !.dc = <<w.ctx, built[w.ctx] + 1>>,
                                                  !.at = "store"])
               /\ UNCHANGED <<ch, outcome, dynClientCache>>
          ELSE /\ ch' = Append(ch, ErrResult(w.ctx, res))
               /\ outcome' = Put(outcome, <<w.ctx, FALSE>>)
               /\ pool' = Move(pool, w, [w EXCEPT !.at = "release"])
               /\ dynClientCache' = CacheAfterFailure(dynClientCache, w.ctx)
               /\ UNCHANGED built
    /\ UNCHANGED sem

\* dynClientCache.Store(ctxName, dc)
dynClientForStore(w) ==
    /\ w.at = "store"
    /\ dynClientCache' = MapPut(dynClientCache, w.ctx, w.dc)
    /\ pool' = Move(pool, w, [w EXCEPT !.at = "list"])
    /\ UNCHANGED <<built, ch, outcome, sem>>

\* ------------------------------------------------------------------------
\* The registry under the goroutines of several MultiContextList calls and
\* a reload of the configuration

\* The context names the callers ask for.
RegNames == {"a", "b"}

InitRegistry ==
    /\ op = "registry"
    /\ CodecIdle
    /\ BatchIdle
    /\ ConnIdle
    /\ AuxIdle

\* The process runs: no fatal error of the runtime has ended it.
RegRunning == op = "registry" /\ exit = <<>>

\* A goroutine of MultiContextList begins: dc, err := dynClientFor(rawConfig, ctx).
\* It notes (history) the handles returned for its name so far, whether a
\* call for its name has failed, and how many resets have run.
RegCall ==
    /\ RegRunning
    /\ calls < MaxCalls
    /\ \E c \in RegNames :
          pool' = Put(pool, [ctx |-> c, at |-> "load", dc |-> <<>>,
                             after |-> handed[c],
                             failed |-> BagIn(<<c, FALSE>>, outcome),
                             epoch |-> resets])
    /\ calls' = calls + 1
    /\ UNCHANGED <<op, textVars, silent, tabVars, fileVars, resets, resetAt, handed, codecVars, connVars,
                   contexts, args, maxProc, pc, launched, sem, wg, ch, got, out, results,
                   ret, dynClientCache, built, outcome, firstDone>>

\* handed once dynClientFor has the handle h to return for the name c.
Handed(c, h) == [handed EXCEPT ![c] = @ \cup {h}]

\* A step of dynClientFor on behalf of one of the goroutines; a hit of Load
\* and Store are followed by return dc, nil.
RegWorker ==
    /\ RegRunning
    /\ \E w \in Goroutines :
          \/ /\ dynClientForLoad(w)
             /\ handed' = IF w.ctx \in DOMAIN dynClientCache
                           THEN Handed(w.ctx, dynClientCache[w.ctx])
                           ELSE handed
          \/ /\ dynClientForBuild(w)
             /\ UNCHANGED handed
          \/ /\ dynClientForStore(w)
             /\ handed' = Handed(w.ctx, w.dc)
    /\ UNCHANGED <<op, textVars, silent, tabVars, fileVars, calls, resets, resetAt, codecVars, connVars,
                   contexts, args, maxProc, pc, launched, wg, got, out, results, ret,
                   firstDone>>

\* The goroutine has its client and goes on to list with it.
RegReturn ==
    /\ RegRunning
    /\ \E w \in Goroutines :
          /\ w.at = "list"
          /\ pool' = Take(pool, w)
    /\ UNCHANGED <<op, auxVars, codecVars, connVars, contexts, args, maxProc, pc, launched,
                   sem, wg, ch, got, out, results, ret, dynClientCache, built, outcome,
                   firstDone>>

\* return nil, err: the goroutine has sent the error and ends, and the
\* collecting loop of its call receives a result.
RegFail ==
    /\ RegRunning
    /\ \E w \in Goroutines :
          /\ w.at = "release"
          /\ pool' = Take(pool, w)
    /\ ch' = Tail(ch)
    /\ UNCHANGED <<op, auxVars, codecVars, connVars, contexts, args, maxProc, pc, launched,
                   sem, wg, got, out, results, ret, dynClientCache, built, outcome,
                   firstDone>>

\* A goroutine is about to Load from or Store to dynClientCache: the
\* assignment of ResetDynClientCache is not synchronized with it.
Racing == \E w \in Goroutines : w.at \in {"load", "store"}

\* What dynClientCache = sync.Map{} leaves behind. Alone it clears the map.
\* In a data race with a Load or a Store the overwritten fields may be put
\* back by the other goroutine (torn: the old entries stay), or the runtime
\* ends the process (fatal: unlock of an unlocked mutex, nil dereference).
ResetOutcomes == IF Racing THEN {"cleared", "torn", "fatal"} ELSE {"cleared"}

\* ResetDynClientCache(): the configuration is reloaded, once in a session.
ResetDynClientCache ==
    /\ RegRunning
    /\ resets = 0
    /\ \E how \in ResetOutcomes :
          /\ dynClientCache' = IF how = "torn" THEN dynClientCache ELSE <<>>
          /\ exit' = IF how = "fatal" THEN <<2>> ELSE exit
    /\ resets' = resets + 1
    /\ resetAt' = built
    /\ handed' = [c \in Range(CtxNames) |-> {}]
    /\ UNCHANGED <<op, textVars, silent, tabVars, fileVars, calls, codecVars, conRetry, maxConnRetry,
                   ExitStatus, top, flash, loops, cancelFn, failStreak, contexts, args,
                   maxProc, pc, launched, sem, wg, ch, pool, got, out, results, ret, built,
                   outcome, firstDone>>

NextRegistry == RegCall \/ RegWorker \/ RegReturn \/ RegFail \/ ResetDynClientCache

SpecRegistry == InitRegistry /\ [][NextRegistry]_vars

\* ------------------------------------------------------------------------
\* MultiContextList

\* Mutant of SemCap: RunParallel ignores its maxProc.
SemCapIgnored == IF op = "list" THEN mcMaxParallel ELSE defaultMaxProc

\* The capacity of the channel sem.
SemCap ==
    IF op = "list" THEN mcMaxParallel
    ELSE IF maxProc <= 0 THEN defaultMaxProc ELSE maxProc

\* Mutant of CanAcquire: one token too many.
CanAcquireOneMore == sem <= SemCap

\* sem <- struct{}{} does not block
CanAcquire == sem < SemCap

\* A call has just begun: nothing is launched, the channels are empty.
BatchFresh ==
    /\ pc = "launch"
    /\ launched = 0
    /\ sem = 0
    /\ wg = 0
    /\ ch = <<>>
    /\ pool = EmptyBag
    /\ got = 0
    /\ out = <<>>
    /\ ret = <<>>
    /\ built = [c \in Range(CtxNames) |-> 0]
    /\ outcome = EmptyBag
    /\ firstDone = 0

\* MultiContextList is called with the contexts cs; the cache is empty, or
\* holds the clients an earlier call has built.
ListCalled(cs) ==
    /\ op = "list"
    /\ CodecIdle
    /\ ConnIdle
    /\ contexts = cs
    /\ args = <<>>
    /\ maxProc = 0
    /\ results = <<>>
    /\ BatchFresh

InitList ==
    /\ \E cs \in ShortLists : ListCalled(cs)
    /\ AuxIdle
    /\ dynClientCache \in {<<>>, Warm(contexts)}

\* The table of a selection longer than mcMaxParallel is refreshed: the
\* clients are in the cache.
InitListLong ==
    /\ ListCalled(LongList)
    /\ AuxIdle
    /\ dynClientCache = Warm(contexts)

\* One iteration of the launch loop: sem <- struct{}{}; go func(ctx) {...}(ctxName)
ListLaunch ==
    /\ op = "list"
    /\ pc = "launch"
    /\ launched < Len(contexts)
    /\ CanAcquire
    /\ sem' = sem + 1
    /\ pool' = Put(pool, [ctx |-> contexts[launched + 1], at |-> "load", dc |-> <<>>])
    /\ launched' = launched + 1
    /\ UNCHANGED <<op, auxVars, codecVars, connVars, contexts, args, maxProc, pc, wg, ch, got, out,
                   results, ret, dynClientCache, built, outcome, firstDone>>

\* The result of a list call that succeeded: result{ctx: ctx, objects: objs}
OkResult(c) == [ctx |-> c, objects |-> Items(c), err |-> NilErr]

\* dc.Resource(gvr)[.Namespace(ns)].List(...) and the send of its outcome.
\* The call is made with context.Background(): it ends when the server of
\* the context answers, and never for a server that stays silent.
ListCall(w) ==
    /\ w.at = "list"
    /\ w.ctx \notin silent
    /\ \E ok \in BOOLEAN :
          /\ ch' = Append(ch, IF ok THEN OkResult(w.ctx) ELSE ErrResult(w.ctx, "list"))
          /\ outcome' = Put(outcome, <<w.ctx, ok>>)
    /\ pool' = Move(pool, w, [w EXCEPT !.at = "release"])
    /\ UNCHANGED <<dynClientCache, built, sem>>

\* Mutant of ListRelease: the goroutine ends with its token.
ListReleaseForgotten(w) ==
    /\ w.at = "release"
    /\ pool' = Take(pool, w)
    /\ UNCHANGED <<dynClientCache, built, ch, outcome, sem>>

\* defer func() { <-sem }(), and the goroutine ends
ListRelease(w) ==
    /\ w.at = "release"
    /\ sem' = sem - 1
    /\ pool' = Take(pool, w)
    /\ UNCHANGED <<dynClientCache, built, ch, outcome>>

\* A step of one of the goroutines of MultiContextList.
ListWorker ==
    /\ op = "list"
    /\ \E w \in Goroutines :
          \/ dynClientForLoad(w)
          \/ dynClientForBuild(w)
          \/ dynClientForStore(w)
          \/ ListCall(w)
          \/ ListRelease(w)
    /\ UNCHANGED <<op, auxVars, codecVars, connVars, contexts, args, maxProc, pc, launched, wg, got, out,
                   results, ret, firstDone>>

\* Mutant of Tagged: the objects carry the context of the loop's position.
TaggedByPosition(r) ==
    [k \in 1..Len(r.objects) |-> [Context |-> contexts[got + 1], Object |-> r.objects[k]]]

\* The objects of the result r, each with the context it came from.
Tagged(r) == [k \in 1..Len(r.objects) |-> [Context |-> r.ctx, Object |-> r.objects[k]]]

\* What the collecting loop does with the result r: a failed context is
\* logged and skipped.
Collected(r) == IF r.err # NilErr THEN out ELSE out \o Tagged(r)

\* One iteration of for range contexts { r := <-ch ... }
ListCollect ==
    /\ op = "list"
    /\ pc = "launch"
    /\ launched = Len(contexts)
    /\ got < Len(contexts)
    /\ ch # <<>>
    /\ out' = Collected(Head(ch))
    /\ ch' = Tail(ch)
    /\ got' = got + 1
    /\ UNCHANGED <<op, auxVars, codecVars, connVars, contexts, args, maxProc, pc, launched, sem, wg, pool,
                   results, ret, dynClientCache, built, outcome, firstDone>>

\* return out, nil
ListReturn ==
    /\ op = "list"
    /\ pc = "launch"
    /\ launched = Len(contexts)
    /\ got = Len(contexts)
    /\ pc' = "returned"
    /\ ret' = <<out, NilErr>>
    /\ UNCHANGED <<op, auxVars, codecVars, connVars, contexts, args, maxProc, launched, sem, wg, ch, pool,
                   got, out, results, dynClientCache, built, outcome, firstDone>>

NextList == ListLaunch \/ ListWorker \/ ListCollect \/ ListReturn

SpecList == InitList /\ [][NextList]_vars

\* ------------------------------------------------------------------------
\* MultiContextServerVersions

VersionsCalled(cs) ==
    /\ op = "versions"
    /\ CodecIdle
    /\ ConnIdle
    /\ contexts = cs
    /\ args = <<>>
    /\ maxProc = 0
    /\ results = <<>>
    /\ dynClientCache = <<>>
    /\ BatchFresh

InitVersions ==
    /\ \E cs \in ShortLists : VersionsCalled(cs)
    /\ AuxIdle

InitVersionsLong ==
    /\ VersionsCalled(LongList)
    /\ AuxIdle

\* One iteration of the launch loop: go func(ctx) {...}(ctxName)
VersionsLaunch ==
    /\ op = "versions"
    /\ pc = "launch"
    /\ launched < Len(contexts)
    /\ pool' = Put(pool, [ctx |-> contexts[launched + 1], at |-> "probe", t |-> 0])
    /\ launched' = launched + 1
    /\ UNCHANGED <<op, auxVars, codecVars, connVars, contexts, args, maxProc, pc, sem, wg, ch, got, out,
                   results, ret, dynClientCache, built, outcome, firstDone>>

\* Mutant of VerResult: a failed probe sends the zero value, not client.NA.
VerResultZero(c, res) == [ctx |-> c, ver |-> IF res = "ok" THEN GitVersion(c) ELSE <<>>]

\* The verResult of a probe: client.NA when cc.ClientConfig(),
\* discovery.NewDiscoveryClientForConfig or dc.ServerVersion() failed
\* (restCfg.Timeout ends a query that gets no answer), else info.GitVersion.
VerResult(c, res) == [ctx |-> c, ver |-> IF res = "ok" THEN GitVersion(c) ELSE NA]

\* Mutant of TimedOut: the client has no timeout.
NeverTimedOut(w) == FALSE

\* The query of the goroutine w has lasted restCfg.Timeout: the client gives
\* it up with an error.
TimedOut(w) == w.t >= ProbeTimeout

\* The probe of the goroutine w can end with res now. The configuration and
\* the client are made locally; a server that answers does so, with the
\* version or with an error, before the timeout; a server that never answers
\* leaves the timeout as the only end of dc.ServerVersion().
CanEnd(w, res) ==
    CASE res = "ok" -> w.ctx \notin silent
      [] res = "server version" -> w.ctx \notin silent \/ TimedOut(w)
      [] OTHER -> TRUE

\* The goroutine of one context: it probes, sends its verResult and ends.
\* (w.t is the time its query has lasted, in seconds.)
VersionsProbe ==
    /\ op = "versions"
    /\ \E w \in Goroutines :
          /\ w.at = "probe"
          /\ \E res \in {"rest config", "discovery client", "server version", "ok"} :
                /\ CanEnd(w, res)
                /\ ch' = Append(ch, VerResult(w.ctx, res))
                /\ outcome' = Put(outcome, <<w.ctx, res = "ok">>)
          /\ pool' = Take(pool, w)
    /\ UNCHANGED <<op, auxVars, codecVars, connVars, contexts, args, maxProc, pc, launched, sem, wg, got,
                   out, results, ret, dynClientCache, built, firstDone>>

\* The goroutine w a second later (the count stops past the timeout).
Later(w) == [w EXCEPT !.t = IF @ <= ProbeTimeout THEN @ + 1 ELSE @]

\* How many goroutines the set S of kinds of goroutine stands for.
RECURSIVE Copies(_)
Copies(S) ==
    IF S = {} THEN 0
    ELSE LET w == CHOOSE x \in S : TRUE IN pool[w] + Copies(S \ {w})

\* A second passes for every probe under way; none passes while a query
\* that has lasted restCfg.Timeout is not yet given up.
Tick ==
    /\ op = "versions"
    /\ pool # EmptyBag
    /\ \A w \in Goroutines : ~TimedOut(w)
    /\ pool' = [v \in {Later(w) : w \in Goroutines} |->
                    Copies({w \in Goroutines : Later(w) = v})]
    /\ UNCHANGED <<op, auxVars, codecVars, connVars, contexts, args, maxProc, pc, launched,
                   sem, wg, ch, got, out, results, ret, dynClientCache, built, outcome,
                   firstDone>>

\* One iteration of for range contexts { r := <-ch; out[r.ctx] = r.ver }
VersionsCollect ==
    /\ op = "versions"
    /\ pc = "launch"
    /\ launched = Len(contexts)
    /\ got < Len(contexts)
    /\ ch # <<>>
    /\ out' = MapPut(out, Head(ch).ctx, Head(ch).ver)
    /\ ch' = Tail(ch)
    /\ got' = got + 1
    /\ UNCHANGED <<op, auxVars, codecVars, connVars, contexts, args, maxProc, pc, launched, sem, wg, pool,
                   results, ret, dynClientCache, built, outcome, firstDone>>

\* return out
VersionsReturn ==
    /\ op = "versions"
    /\ pc = "launch"
    /\ launched = Len(contexts)
    /\ got = Len(contexts)
    /\ pc' = "returned"
    /\ ret' = <<out>>
    /\ UNCHANGED <<op, auxVars, codecVars, connVars, contexts, args, maxProc, launched, sem, wg, ch, pool,
                   got, out, results, dynClientCache, built, outcome, firstDone>>

NextVersions == VersionsLaunch \/ VersionsProbe \/ VersionsCollect \/ VersionsReturn

SpecVersions == InitVersions /\ [][NextVersions]_vars

\* MultiContextServerVersions with time, and with servers that never answer.
InitTimed ==
    /\ \E cs \in ShortLists : VersionsCalled(cs)
    /\ silent \in SUBSET Range(contexts)
    /\ TextIdle
    /\ RegIdle
    /\ TabIdle
    /\ FileIdle

NextTimed == NextVersions \/ Tick

\* The scheduler runs every goroutine that can run, and time passes.
SpecTimed == InitTimed /\ [][NextTimed]_vars /\ WF_vars(NextTimed)

\* ------------------------------------------------------------------------
\* RunParallel

\* The kubectl arguments a caller hands to RunParallel.
ArgLists == {<<"get", "pods">>, <<"exec", "p", "--", "ls">>}

\* What kubectl may leave on stderr when it fails.
Stderrs == {<<>>, <<" ", "\n">>, <<" ", "boom", "\n">>}

\* err.Error() of a command that failed
ExitError == <<"exit status 1">>

\* The loop of injectContext over the rest a of args.
RECURSIVE injectFrom(_, _, _)
injectFrom(a, context, injected) ==
    IF a = <<>>
    THEN IF ~injected THEN <<"--context", context>> ELSE <<>>
    ELSE IF Head(a) = "--" /\ ~injected
         THEN <<"--context", context, Head(a)>> \o injectFrom(Tail(a), context, TRUE)
         ELSE <<Head(a)>> \o injectFrom(Tail(a), context, injected)

\* Mutant of injectContext: the flag is always appended.
injectAppend(a, context) == a \o <<"--context", context>>

injectContext(a, context) == injectFrom(a, context, FALSE)

\* strings.TrimSpace
IsSpace(t) == t \in {" ", "\n"}

RECURSIVE TrimLeft(_)
TrimLeft(t) == IF t # <<>> /\ IsSpace(Head(t)) THEN TrimLeft(Tail(t)) ELSE t

RECURSIVE TrimRight(_)
TrimRight(t) ==
    IF t # <<>> /\ IsSpace(t[Len(t)]) THEN TrimRight(SubSeq(t, 1, Len(t) - 1)) ELSE t

TrimSpace(t) == TrimRight(TrimLeft(t))

\* What kubectl prints on stdout when run with the arguments a.
Stdout(a) == <<"output of">> \o a

\* Result{}, the zero value
ZeroResult == [Context |-> "", Output |-> <<>>, Err |-> NilErr]

\* Mutant of TaskResult: the error of a failed command is dropped.
TaskResultNoErr(c, ok, stderr) ==
    [Context |-> c,
     Output |-> IF ok THEN <<"output of">> \o injectContext(args, c) ELSE stderr,
     Err |-> NilErr]

\* Mutant of TaskResult: the standard error is reported as it was written.
TaskResultRawStderr(c, ok, stderr) ==
    IF ok
    THEN [Context |-> c, Output |-> <<"output of">> \o injectContext(args, c), Err |-> NilErr]
    ELSE [Context |-> c, Output |-> stderr, Err |-> <<TRUE, stderr>>]

\* The Result of the task of context c whose command ended with err == nil
\* (ok) or with an error and stderr on its standard error.
TaskResult(c, ok, stderr) ==
    IF ok
    THEN [Context |-> c, Output |-> Stdout(injectContext(args, c)), Err |-> NilErr]
    ELSE LET errMsg == IF TrimSpace(stderr) = <<>> THEN ExitError ELSE TrimSpace(stderr)
         IN  [Context |-> c, Output |-> errMsg, Err |-> ErrorOf(errMsg)]

\* RunParallel is called with the contexts cs and arguments of as.
RunCalledWith(cs, as) ==
    /\ op = "run"
    /\ CodecIdle
    /\ ConnIdle
    /\ contexts = cs
    /\ args \in as
    /\ maxProc \in -1..MaxProcArg
    /\ results = [k \in 1..Len(contexts) |-> ZeroResult]
    /\ dynClientCache = <<>>
    /\ BatchFresh

\* RunParallel is called with the contexts cs.
RunCalled(cs) == RunCalledWith(cs, ArgLists)

InitRun ==
    /\ \E cs \in ShortLists : RunCalled(cs)
    /\ AuxIdle

\* for i, ctx := range contexts { wg.Add(1) ...
RunAdd ==
    /\ op = "run"
    /\ pc = "launch"
    /\ launched < Len(contexts)
    /\ wg' = wg + 1
    /\ pc' = "acquire"
    /\ UNCHANGED <<op, auxVars, codecVars, connVars, contexts, args, maxProc, launched, sem, ch, pool, got,
                   out, results, ret, dynClientCache, built, outcome, firstDone>>

\* ... sem <- struct{}{}; go func(idx, context) {...}(i, ctx) }
\* (idx counts from 1 here, from 0 in the source)
RunAcquire ==
    /\ op = "run"
    /\ pc = "acquire"
    /\ CanAcquire
    /\ sem' = sem + 1
    /\ pool' = Put(pool, [idx |-> launched + 1, ctx |-> contexts[launched + 1], at |-> "run",
                          argv |-> <<>>, cmd |-> <<>>])
    /\ launched' = launched + 1
    /\ pc' = "launch"
    /\ UNCHANGED <<op, auxVars, codecVars, connVars, contexts, args, maxProc, wg, ch, got, out, results, ret,
                   dynClientCache, built, outcome, firstDone>>

\* Mutant of Slot: the results are appended as the tasks complete.
SlotByArrival(w) == BagCardinality(outcome) + 1

\* The slot of results the goroutine w writes: results[idx] = r
Slot(w) == w.idx

\* Mutant of ArgsAfterInject: the flag is inserted into the caller's slice.
ArgsInjectedInPlace(a, context) == injectContext(a, context)

\* The caller's args once injectContext(a, context) has returned: local is
\* made with a backing array of its own (make([]string, 0, len(args)+2)), and
\* every append goes there.
ArgsAfterInject(a, context) == a

\* localArgs := injectContext(args, context), cmd.Run() of kubectl with
\* them, and results[idx] = r. Until its deferred calls begin the goroutine
\* holds the arguments of its command in argv and what the command did in
\* cmd: <<err == nil, stderr>>.
\* cmd.Run() waits for kubectl to exit: it never returns for a context
\* whose kubectl never ends.
RunTask(w) ==
    /\ w.at = "run"
    /\ w.ctx \notin silent
    /\ \E ok \in BOOLEAN, stderr \in Stderrs :
          /\ results' = [results EXCEPT ![Slot(w)] = TaskResult(w.ctx, ok, stderr)]
          /\ outcome' = Put(outcome, <<w.ctx, ok>>)
          /\ pool' = Move(pool, w, [w EXCEPT !.at = "release", !.cmd = <<ok, stderr>>,
                                             !.argv = injectContext(args, w.ctx)])
    /\ args' = ArgsAfterInject(args, w.ctx)
    /\ firstDone' = IF firstDone = 0 THEN w.idx ELSE firstDone
    /\ UNCHANGED <<sem, wg>>

\* defer func() { <-sem }()
RunRelease(w) ==
    /\ w.at = "release"
    /\ sem' = sem - 1
    /\ pool' = Move(pool, w, [w EXCEPT !.at = "done", !.cmd = <<>>, !.argv = <<>>])
    /\ UNCHANGED <<args, wg, results, outcome, firstDone>>

\* defer wg.Done(), and the goroutine ends
RunDone(w) ==
    /\ w.at = "done"
    /\ wg' = wg - 1
    /\ pool' = Take(pool, w)
    /\ UNCHANGED <<args, sem, results, outcome, firstDone>>

\* A step of one of the goroutines of RunParallel.
RunWorker ==
    /\ op = "run"
    /\ \E w \in Goroutines : RunTask(w) \/ RunRelease(w) \/ RunDone(w)
    /\ UNCHANGED <<op, auxVars, codecVars, connVars, contexts, maxProc, pc, launched, ch, got, out, ret,
                   dynClientCache, built>>

\* Mutant of WaitDone: the wait ends with one task still counted.
WaitDoneEarly == wg <= 1

\* wg.Wait() has nothing left to wait for
WaitDone == wg = 0

\* wg.Wait(); return results
RunReturn ==
    /\ op = "run"
    /\ pc = "launch"
    /\ launched = Len(contexts)
    /\ WaitDone
    /\ pc' = "returned"
    /\ ret' = <<results>>
    /\ UNCHANGED <<op, auxVars, codecVars, connVars, contexts, args, maxProc, launched, sem, wg, ch, pool,
                   got, out, results, dynClientCache, built, outcome, firstDone>>

NextRun == RunAdd \/ RunAcquire \/ RunWorker \/ RunReturn

SpecRun == InitRun /\ [][NextRun]_vars

\* ------------------------------------------------------------------------
\* injectContext, called on its own

\* The tokens of a kubectl command line: the separator, a word, and the flag
\* itself (a caller may have put one already).
Tokens == {"--", "get", "--context"}

\* The argument lists of at most n tokens.
TokensUpTo(n) == UNION {[1..k -> Tokens] : k \in 0..n}

InitInject ==
    /\ op = "inject"
    /\ CodecIdle
    /\ BatchIdle
    /\ ConnIdle
    /\ argv \in TokensUpTo(MaxArgs)
    /\ contextArg \in {"a", "b"}
    /\ local = <<>>
    /\ toFormat = <<>>
    /\ report = <<>>
    /\ silent = {}
    /\ RegIdle
    /\ TabIdle
    /\ FileIdle

\* local := injectContext(args, context)
Inject ==
    /\ op = "inject"
    /\ local = <<>>
    /\ local' = injectContext(argv, contextArg)
    /\ UNCHANGED <<op, argv, contextArg, toFormat, report, silent, tabVars, fileVars, regVars, codecVars,
                   batchVars, connVars>>

NextInject == Inject

SpecInject == InitInject /\ [][NextInject]_vars

\* ------------------------------------------------------------------------
\* FormatResults, called on its own (strings are sequences of characters)

\* strings.Repeat("-", n)
RepeatDash(n) == [k \in 1..n |-> "-"]

\* "  (error) "
ErrorMark == <<" ", " ", "(", "e", "r", "r", "o", "r", ")", " ">>

\* The loop of FormatResults over the rest rs of results, the builder
\* holding bld:
\*   b.WriteString(fmt.Sprintf("\n%s\n%s\n", header, strings.Repeat("-", len(header))))
\*   if r.Err != nil { b.WriteString(fmt.Sprintf("  (error) %s\n", r.Output)) }
\*   else { b.WriteString(r.Output) }
RECURSIVE FormatFrom(_, _)
FormatFrom(rs, bld) ==
    IF rs = <<>> THEN bld
    ELSE LET r == Head(rs)
             header == r.Context
             headed == bld \o <<"\n">> \o header \o <<"\n">>
                           \o RepeatDash(Len(header)) \o <<"\n">>
         IN  FormatFrom(Tail(rs),
                        IF r.Err # NilErr
                        THEN headed \o ErrorMark \o r.Output \o <<"\n">>
                        ELSE headed \o r.Output)

\* Mutant of FormatResults: a failed result is rendered like any other.
FormatResultsUnmarked(rs) ==
    FormatFrom([k \in DOMAIN rs |-> [rs[k] EXCEPT !.Err = NilErr]], <<>>)

FormatResults(rs) == FormatFrom(rs, <<>>)

\* The Results a caller may hand over: context names of length 0 to 2, an
\* empty and a two-character output, with and without error.
SomeResults ==
    [Context : {<<>>, <<"a">>, <<"a", "b">>},
     Output : {<<>>, <<"o", "\n">>},
     Err : {NilErr, ErrorOf(<<"e">>)}]

ResultsUpTo(n) == UNION {[1..k -> SomeResults] : k \in 0..n}

InitFormat ==
    /\ op = "format"
    /\ CodecIdle
    /\ BatchIdle
    /\ ConnIdle
    /\ argv = <<>>
    /\ contextArg = ""
    /\ local = <<>>
    /\ toFormat \in ResultsUpTo(MaxResults)
    /\ report = <<>>
    /\ silent = {}
    /\ RegIdle
    /\ TabIdle
    /\ FileIdle

\* s := FormatResults(results)
Format ==
    /\ op = "format"
    /\ report = <<>>
    /\ report' = <<FormatResults(toFormat)>>
    /\ UNCHANGED <<op, argv, contextArg, local, toFormat, silent, tabVars, fileVars, regVars, codecVars,
                   batchVars, connVars>>

NextFormat == Format

SpecFormat == InitFormat /\ [][NextFormat]_vars

\* ------------------------------------------------------------------------
\* The three batches

InitBatch == InitList \/ InitVersions \/ InitRun

NextBatch == NextList \/ NextVersions \/ NextRun

\* A batch over a short list of contexts.
SpecBatch == InitBatch /\ [][NextBatch]_vars

\* A batch over a short list, or over one longer than mcMaxParallel.
SpecFan == (InitBatch \/ InitListLong \/ InitVersionsLong) /\ [][NextBatch]_vars

\* The lists of n distinct context names, 1 <= n <= MaxHung.
HungLists == {SubSeq(CtxNames, 1, n) : n \in 1..MaxHung}

\* MultiContextList or RunParallel over distinct contexts, of which those of
\* silent never answer: their list call, their kubectl, never ends.
InitHung ==
    /\ \E cs \in HungLists :
          \/ ListCalled(cs) /\ dynClientCache \in {<<>>, Warm(contexts)}
          \/ RunCalled(cs) /\ args = <<"get", "pods">>
    /\ silent \in SUBSET Range(contexts)
    /\ TextIdle
    /\ RegIdle
    /\ TabIdle
    /\ FileIdle

NextHung == NextList \/ NextRun

\* The goroutine of the context c takes the step.
StepOfTask(c) == \E w \in Goroutines : w.ctx = c /\ CopiesIn(w, pool') < CopiesIn(w, pool)

\* The Go scheduler runs every goroutine that can run: the caller's, which is
\* in the launch loop, in the collecting loop or at the return, and that of
\* each task.
SpecHung ==
    /\ InitHung
    /\ [][NextHung]_vars
    /\ WF_vars(ListLaunch \/ ListCollect \/ ListReturn \/ RunAdd \/ RunAcquire \/ RunReturn)
    /\ \A k \in 1..MaxHung :
          WF_vars((ListWorker \/ RunWorker) /\ StepOfTask(CtxNames[k]))

\* MultiContextList or RunParallel over no context, over a few, and
\* MultiContextList over more contexts than its semaphore is wide (RunParallel
\* with maxProc = 1 has more contexts than tokens from two contexts on);
\* every server answers.
InitDispatch ==
    /\ \/ \E cs \in {<<>>} \cup HungLists :
             \/ ListCalled(cs) /\ dynClientCache \in {<<>>, Warm(contexts)}
             \/ RunCalled(cs) /\ args = <<"get", "pods">>
       \/ ListCalled(LongList) /\ dynClientCache = Warm(contexts)
    /\ AuxIdle

SpecDispatch == InitDispatch /\ [][NextHung]_vars

\* Arguments in which the caller has put a context flag of its own.
FlaggedArgLists == {<<"get", "pods", "--context", "z">>, <<"exec", "--context", "z", "p", "--", "ls">>}

\* RunParallel over a few distinct contexts, with arguments that hold a
\* context flag already or none.
InitArgs ==
    /\ \E cs \in HungLists : RunCalledWith(cs, ArgLists \cup FlaggedArgLists)
    /\ AuxIdle

SpecArgs == InitArgs /\ [][NextRun]_vars

\* ------------------------------------------------------------------------
\* The connectivity supervisor

\* fmt.Sprintf("Lost K8s connection (%d). Bailing out!", count)
LostConnection(count) == <<"Lost K8s connection", count>>

\* fmt.Sprintf("Dial K8s Toast [%d/%d]", count, maxConnRetry)
DialToast(count, max) == <<"warn", count, max>>

\* ConOK checks the connection is cool.
ConOK == conRetry = 0

\* The values of MaxConnRetry a configuration gives.
RetryConfigs == 1..MaxRetry

\* The state after NewApp and Init: no view is on the stack, no loop runs.
InitConn ==
    /\ op = "conn"
    /\ CodecIdle
    /\ BatchIdle
    /\ AuxIdle
    /\ conRetry = 0
    /\ maxConnRetry \in RetryConfigs
    /\ ExitStatus = <<>>
    /\ exit = <<>>
    /\ top = "nil"
    /\ flash = <<"none">>
    /\ loops = [l \in 1..MaxLoops |-> NoLoop]
    /\ cancelFn = 0
    /\ failStreak = 0

\* The process runs: BailOut has not ended it.
Running == op = "conn" /\ exit = <<>>

\* Halt: if a.cancelFn != nil { a.cancelFn(); a.cancelFn = nil }
Halt ==
    /\ Running
    /\ IF cancelFn # 0
       THEN /\ loops' = [loops EXCEPT ![cancelFn].cancelled = TRUE]
            /\ cancelFn' = 0
       ELSE UNCHANGED <<loops, cancelFn>>
    /\ UNCHANGED <<op, auxVars, codecVars, batchVars, conRetry, maxConnRetry, ExitStatus, exit, top,
                   flash, failStreak>>

\* Resume: ctx, a.cancelFn = context.WithCancel(...); go a.clusterUpdater(ctx)
Resume ==
    /\ Running
    /\ \E l \in 1..MaxLoops :
          /\ loops[l].at = "none"
          /\ \A k \in 1..(l - 1) : loops[k].at # "none"
          /\ loops' = [loops EXCEPT ![l].at = "start"]
          /\ cancelFn' = l
    /\ UNCHANGED <<op, auxVars, codecVars, batchVars, conRetry, maxConnRetry, ExitStatus, exit, top,
                   flash, failStreak>>

\* The view a refreshCluster in flight holds in c is no longer the top one.
Detached == [l \in 1..MaxLoops |->
                IF loops[l].c = "top" THEN [loops[l] EXCEPT !.c = "gone"] ELSE loops[l]]

\* inject: a.Content.Clear() empties the stack ...
StackClear ==
    /\ Running
    /\ top # "nil"
    /\ top' = "nil"
    /\ loops' = Detached
    /\ UNCHANGED <<op, auxVars, codecVars, batchVars, conRetry, maxConnRetry, ExitStatus, exit, flash,
                   cancelFn, failStreak>>

\* ... and a.Content.Push(c) puts a view on it, which starts.
StackPush ==
    /\ Running
    /\ top' = "started"
    /\ top # "started"
    /\ loops' = Detached
    /\ UNCHANGED <<op, auxVars, codecVars, batchVars, conRetry, maxConnRetry, ExitStatus, exit, flash,
                   cancelFn, failStreak>>

\* Mutant of RetryAfterSuccess: a single failure is not reset.
RetryAfterSuccessLate(n) == IF n > 1 THEN 0 ELSE n

\* conRetry after a probe that succeeded on the counter n:
\*   if atomic.LoadInt32(&a.conRetry) > 0 { atomic.StoreInt32(&a.conRetry, 0) ... }
RetryAfterSuccess(n) == IF n > 0 THEN 0 ELSE n

\* conRetry after a probe that failed on the counter n, with the view c:
\*   } else if c != nil { atomic.AddInt32(&a.conRetry, 1); c.Stop() }
RetryAfterFailure(n, c) == IF c # "nil" THEN n + 1 ELSE n

\* The top view c after the success branch on the counter n:
\*   if atomic.LoadInt32(&a.conRetry) > 0 { ...; if c != nil { c.Start() } }
TopAfterStart(n, c) == IF n > 0 /\ c # "nil" THEN "started" ELSE c

\* refreshCluster up to its connectivity check, run by the loop l: c :=
\* a.Content.Top(), the probe a.Conn().CheckConnectivity() and the branch on
\* its answer ok. A success resets the counter and starts c; a failure with
\* a view in c adds one to the counter, and c.Stop() is yet to come. (The
\* stack may change between Top() and the branch: the outcomes are those of
\* a change after the branch.)
refreshClusterProbe(l, ok) ==
    LET first == loops[l].at = "start" IN
    /\ IF ok
       THEN /\ conRetry' = RetryAfterSuccess(conRetry)
            /\ flash' = IF conRetry > 0 THEN <<"info">> ELSE <<"none">>
            /\ top' = TopAfterStart(conRetry, top)
            /\ failStreak' = 0
            /\ loops' = [loops EXCEPT ![l].at = IF first THEN "check0" ELSE "check",
                                      ![l].ok = TRUE]
       ELSE /\ conRetry' = RetryAfterFailure(conRetry, top)
            /\ failStreak' = IF failStreak < StreakCap THEN failStreak + 1 ELSE failStreak
            /\ loops' = [loops EXCEPT
                           ![l].at = IF top # "nil"
                                     THEN (IF first THEN "stop0" ELSE "stop")
                                     ELSE (IF first THEN "check0" ELSE "check"),
                           ![l].c = IF top # "nil" THEN "top" ELSE "nil",
                           ![l].ok = FALSE]
            /\ UNCHANGED <<flash, top>>
    /\ UNCHANGED <<maxConnRetry, ExitStatus, exit, cancelFn>>

\* clusterUpdater begins: without a valid connection it returns at once,
\* else refreshCluster makes the first probe.
UpdaterStart ==
    /\ Running
    /\ \E l \in 1..MaxLoops :
          /\ loops[l].at = "start"
          /\ \E valid \in BOOLEAN :
                IF valid
                THEN \E ok \in BOOLEAN : refreshClusterProbe(l, ok)
                ELSE /\ loops' = [loops EXCEPT ![l].at = "dead"]
                     /\ UNCHANGED <<conRetry, maxConnRetry, ExitStatus, exit, top, flash,
                                    cancelFn, failStreak>>
    /\ UNCHANGED <<op, auxVars, codecVars, batchVars>>

\* select { case <-time.After(delay): the timer fires while the loop waits
\* and ctx is not done, and the select takes this case. (A loop that finds
\* ctx done when it comes to the select, or whose ctx is cancelled before
\* the timer fires, takes the other case: delay is never less than
\* clusterRefresh.)
UpdaterWake ==
    /\ Running
    /\ \E l \in 1..MaxLoops :
          /\ loops[l].at = "select"
          /\ ~loops[l].cancelled
          /\ loops' = [loops EXCEPT ![l].at = "due", ![l].delay = "clusterRefresh"]
    /\ UNCHANGED <<op, auxVars, codecVars, batchVars, conRetry, maxConnRetry, ExitStatus, exit,
                   top, flash, cancelFn, failStreak>>

\* ... and refreshCluster probes. Nothing looks at ctx between the select
\* and the probe: a cancellation that arrives after the timer has fired
\* does not keep the probe from running.
UpdaterTimer ==
    /\ Running
    /\ \E l \in 1..MaxLoops :
          /\ loops[l].at = "due"
          /\ \E ok \in BOOLEAN : refreshClusterProbe(l, ok)
    /\ UNCHANGED <<op, auxVars, codecVars, batchVars>>

\* select { case <-ctx.Done(): return
UpdaterCanceled ==
    /\ Running
    /\ \E l \in 1..MaxLoops :
          /\ loops[l].at = "select"
          /\ loops[l].cancelled
          /\ loops' = [loops EXCEPT ![l].at = "dead", ![l].delay = "clusterRefresh"]
    /\ UNCHANGED <<op, auxVars, codecVars, batchVars, conRetry, maxConnRetry, ExitStatus, exit, top,
                   flash, cancelFn, failStreak>>

\* c.Stop(), the second statement of the failure branch.
UpdaterStop ==
    /\ Running
    /\ \E l \in 1..MaxLoops :
          /\ loops[l].at \in {"stop0", "stop"}
          /\ top' = IF loops[l].c = "top" THEN "stopped" ELSE top
          /\ loops' = [loops EXCEPT ![l].at = IF loops[l].at = "stop0" THEN "check0" ELSE "check",
                                    ![l].c = "nil"]
    /\ UNCHANGED <<op, auxVars, codecVars, batchVars, conRetry, maxConnRetry, ExitStatus, exit,
                   flash, cancelFn, failStreak>>

\* a.Logo().Warn("Aliases load failed!")
AliasWarn == <<"warn", "aliases">>

\* The logo once the goroutine that reloads the aliases has ended.
AliasReloaded(failed) == IF failed THEN AliasWarn ELSE flash

\* count >= maxConnRetry: refreshCluster bails out
Exhausted(count, max) == count >= max

\* The rest of refreshCluster, from count := atomic.LoadInt32(&a.conRetry),
\* and what clusterUpdater does with the error it returns. The loop l is at
\* its first probe (first) or in its for loop.
refreshClusterCheck(l, first) ==
    LET count == conRetry
        done  == [loops[l] EXCEPT !.ok = TRUE]
    IN
    IF Exhausted(count, maxConnRetry)
    THEN \* ExitStatus = ...; a.BailOut(1)
         /\ ExitStatus' = LostConnection(count)
         /\ exit' = <<1>>
         /\ UNCHANGED <<flash, loops>>
    ELSE IF count > 0
    THEN \* a.Status(model.FlashWarn, ...); return fmt.Errorf(...)
         /\ flash' = DialToast(count, maxConnRetry)
         /\ UNCHANGED ExitStatus
         /\ IF first
            THEN \* "Cluster updater failed!": clusterUpdater returns
                 /\ loops' = [loops EXCEPT ![l] = [done EXCEPT !.at = "dead"]]
                 /\ UNCHANGED exit
            ELSE \* delay = bf.NextBackOff(); backoff.Stop ends the session
                 \E stop \in BOOLEAN :
                    IF stop
                    THEN exit' = <<1>> /\ UNCHANGED loops
                    ELSE /\ loops' = [loops EXCEPT ![l] =
                                [done EXCEPT !.at = "select", !.delay = "NextBackOff"]]
                         /\ UNCHANGED exit
    ELSE \* go func() { ... }() reloads the aliases: when a.command.Reset
         \* fails, the goroutine logs the error and warns on the logo (it
         \* is taken to end before the next status is shown);
         \* a.clusterModel.Refresh(); return nil, on which the first delay
         \* is clusterRefresh and the for loop does bf.Reset(); delay =
         \* clusterRefresh
         /\ \E failed \in BOOLEAN : flash' = AliasReloaded(failed)
         /\ loops' = [loops EXCEPT ![l] =
                [done EXCEPT !.at = "select", !.delay = "clusterRefresh"]]
         /\ UNCHANGED <<ExitStatus, exit>>

UpdaterCheck ==
    /\ Running
    /\ \E l \in 1..MaxLoops :
          /\ loops[l].at \in {"check0", "check"}
          /\ refreshClusterCheck(l, loops[l].at = "check0")
    /\ UNCHANGED <<op, auxVars, codecVars, batchVars, conRetry, maxConnRetry, top, cancelFn,
                   failStreak>>

NextConn ==
    \/ Halt
    \/ Resume
    \/ StackClear
    \/ StackPush
    \/ UpdaterStart
    \/ UpdaterWake
    \/ UpdaterTimer
    \/ UpdaterCanceled
    \/ UpdaterStop
    \/ UpdaterCheck

SpecConn == InitConn /\ [][NextConn]_vars

\* a.Config.K9s.MaxConnRetry is an int32 that refreshCluster reads as it is
\* configured: nothing in clusterUpdater or refreshCluster keeps it positive.
AnyRetryConfigs == 0..MaxRetry

\* The supervisor under every threshold a configuration can give.
InitConnAny ==
    /\ op = "conn"
    /\ CodecIdle
    /\ BatchIdle
    /\ AuxIdle
    /\ conRetry = 0
    /\ maxConnRetry \in AnyRetryConfigs
    /\ ExitStatus = <<>>
    /\ exit = <<>>
    /\ top = "nil"
    /\ flash = <<"none">>
    /\ loops = [l \in 1..MaxLoops |-> NoLoop]
    /\ cancelFn = 0
    /\ failStreak = 0

SpecConnAny == InitConnAny /\ [][NextConn]_vars

\* The step moves the goroutine of the loop l, or ends the process.
StepOf(l) == loops'[l] # loops[l] \/ exit' # exit

\* The supervisor with its scheduling: every goroutine that can run does
\* run, and a timer that is set fires. Halt, Resume and the page stack are
\* the user's: nothing says they ever happen.
SpecConnFair ==
    /\ InitConn
    /\ [][NextConn]_vars
    /\ \A l \in 1..MaxLoops :
          /\ WF_vars(UpdaterStart /\ StepOf(l))
          /\ WF_vars(UpdaterWake /\ StepOf(l))
          /\ WF_vars(UpdaterTimer /\ StepOf(l))
          /\ WF_vars(UpdaterCanceled /\ StepOf(l))
          /\ WF_vars(UpdaterStop /\ StepOf(l))
          /\ WF_vars(UpdaterCheck /\ StepOf(l))

\* ------------------------------------------------------------------------
\* The file of the selected contexts (config: LoadSelectedContexts,
\* SaveSelectedContexts)

\* The context names a selection is made of: two names and a blank one.
SelNames == {<<"a">>, <<"b">>, <<" ">>}

\* The lists of at most n names.
SelListsUpTo(n) == UNION {[1..k -> SelNames] : k \in 0..n}

SelLists == SelListsUpTo(MaxSel)

\* strings.Join(ctxs, "\n")
RECURSIVE JoinLines(_)
JoinLines(ctxs) ==
    IF ctxs = <<>> THEN <<>>
    ELSE IF Len(ctxs) = 1 THEN ctxs[1]
    ELSE ctxs[1] \o <<"\n">> \o JoinLines(Tail(ctxs))

\* strings.Split(s, "\n"): the pieces of s between its newlines, at least one.
RECURSIVE SplitLines(_)
SplitLines(s) ==
    IF \A k \in DOMAIN s : s[k] # "\n" THEN <<s>>
    ELSE LET i == CHOOSE k \in DOMAIN s : s[k] = "\n" /\ \A j \in 1..(k - 1) : s[j] # "\n"
         IN  <<SubSeq(s, 1, i - 1)>> \o SplitLines(SubSeq(s, i + 1, Len(s)))

\* The loop of LoadSelectedContexts over the lines:
\*   line = strings.TrimSpace(line); if line != "" { out = append(out, line) }
RECURSIVE KeptLines(_)
KeptLines(lines) ==
    IF lines = <<>> THEN <<>>
    ELSE LET line == TrimSpace(Head(lines))
         IN  (IF line # <<>> THEN <<line>> ELSE <<>>) \o KeptLines(Tail(lines))

\* Mutant of ParseSelected: the bytes are taken as one line.
ParseAsOneLine(bb) == KeptLines(<<TrimSpace(bb)>>)

\* What LoadSelectedContexts makes of the bytes bb of the file.
ParseSelected(bb) == KeptLines(SplitLines(TrimSpace(bb)))

InitFile ==
    /\ op = "file"
    /\ CodecIdle
    /\ BatchIdle
    /\ ConnIdle
    /\ TextIdle
    /\ RegIdle
    /\ TabIdle
    /\ silent = {}
    /\ \/ file = <<>> /\ prior = <<>>
       \/ \E ctxs \in SelLists : file = <<JoinLines(ctxs)>> /\ prior = <<ctxs>>
    /\ saving = <<>>
    /\ loaded = <<>>

\* SaveSelectedContexts(ctxs) up to the call of os.WriteFile: when
\* data.EnsureDirPath fails the call returns its error.
SaveSelectedContexts ==
    /\ op = "file"
    /\ saving = <<>>
    /\ \E ctxs \in SelLists, dirOk \in BOOLEAN :
         saving' = [ctxs |-> ctxs,
                    at   |-> IF dirOk THEN "open" ELSE "returned",
                    rest |-> <<>>,
                    err  |-> ~dirOk]
    /\ UNCHANGED <<op, file, loaded, prior, textVars, silent, tabVars, regVars, codecVars,
                   batchVars, connVars>>

\* os.WriteFile opens the file with O_WRONLY|O_CREATE|O_TRUNC: the file
\* exists and is empty before the first byte is written.
WriteFileOpen ==
    /\ op = "file"
    /\ saving # <<>>
    /\ saving.at = "open"
    /\ file' = << <<>> >>
    /\ saving' = [saving EXCEPT !.at = "write", !.rest = JoinLines(saving.ctxs)]
    /\ UNCHANGED <<op, loaded, prior, textVars, silent, tabVars, regVars, codecVars,
                   batchVars, connVars>>

\* os.WriteFile writes the bytes: a write may be short and is then followed
\* by another, or fail, and the call returns the error; when nothing is left
\* the file is closed and the call returns nil.
WriteFileWrite ==
    /\ op = "file"
    /\ saving # <<>>
    /\ saving.at = "write"
    /\ \/ /\ saving.rest = <<>>
          /\ saving' = [saving EXCEPT !.at = "returned"]
          /\ file' = file
       \/ /\ saving.rest # <<>>
          /\ \E k \in 1..Len(saving.rest) :
               /\ file' = <<file[1] \o SubSeq(saving.rest, 1, k)>>
               /\ saving' = [saving EXCEPT
                               !.rest = SubSeq(saving.rest, k + 1, Len(saving.rest))]
       \/ /\ saving.rest # <<>>
          /\ saving' = [saving EXCEPT !.at = "returned", !.err = TRUE]
          /\ file' = file
    /\ UNCHANGED <<op, loaded, prior, textVars, silent, tabVars, regVars, codecVars,
                   batchVars, connVars>>

\* Whether a SaveSelectedContexts has been called and has not returned.
Saving == saving # <<>> /\ saving.at # "returned"

\* LoadSelectedContexts(): a missing file is the nil list and no error, a
\* failed read is its error, else the list is parsed out of the bytes read.
\* The field during records whether a SaveSelectedContexts was running.
LoadSelectedContexts ==
    /\ op = "file"
    /\ loaded = <<>>
    /\ \E readOk \in BOOLEAN :
         loaded' = [list   |-> IF file = <<>> \/ ~readOk THEN <<>>
                               ELSE ParseSelected(file[1]),
                    err    |-> file # <<>> /\ ~readOk,
                    during |-> Saving]
    /\ UNCHANGED <<op, file, saving, prior, textVars, silent, tabVars, regVars, codecVars,
                   batchVars, connVars>>

NextFile == SaveSelectedContexts \/ WriteFileOpen \/ WriteFileWrite \/ LoadSelectedContexts

SpecFile == InitFile /\ [][NextFile]_vars

\* ------------------------------------------------------------------------
\* CRD tab groups (view: crdGroups, gvrToAliasKey, nextCRDInGroup,
\* prevCRDInGroup)
\*
\* A string of this component is the sequence of its pieces: each of the
\* separators ".", "/" and "|" is a piece of its own, and so is every run of
\* other characters between them.

\* The names joined with "." between them.
RECURSIVE Dotted(_)
Dotted(names) ==
    IF Len(names) = 1 THEN <<names[1]>>
    ELSE <<names[1], ".">> \o Dotted(Tail(names))

\* var crdGroups = [][]string{...}
crdGroups ==
    LET longhorn == <<"longhorn", "io">>
        fleet == <<"fleet", "cattle", "io">>
        management == <<"management", "cattle", "io">>
        kubevirt == <<"kubevirt", "io">>
        helm == <<"helm", "cattle", "io">>
        capi == <<"cluster", "x-k8s", "io">>
        kubewarden == <<"policies", "kubewarden", "io">>
        v1nodes == <<"v1", "/", "nodes">>
        \* "v1/nodes|node-role.kubernetes.io/control-plane"
        controlPlanes ==
            v1nodes \o <<"|">> \o Dotted(<<"node-role", "kubernetes", "io">>)
                    \o <<"/", "control-plane">>
    IN
    << << Dotted(<<"volumes">> \o longhorn),
          Dotted(<<"replicas">> \o longhorn),
          Dotted(<<"engines">> \o longhorn),
          Dotted(<<"nodes">> \o longhorn),
          Dotted(<<"backupvolumes">> \o longhorn) >>,
       << Dotted(<<"gitrepos">> \o fleet),
          Dotted(<<"bundledeployments">> \o fleet),
          Dotted(<<"bundles">> \o fleet),
          Dotted(<<"clustergroups">> \o fleet),
          Dotted(<<"clusters">> \o fleet) >>,
       << Dotted(<<"clusters">> \o management),
          Dotted(<<"projects">> \o management),
          Dotted(<<"users">> \o management),
          Dotted(<<"settings">> \o management),
          Dotted(<<"clusterrepos", "catalog", "cattle", "io">>) >>,
       << Dotted(<<"virtualmachines">> \o kubevirt),
          Dotted(<<"virtualmachineinstances">> \o kubevirt) >>,
       << Dotted(<<"helmcharts">> \o helm),
          Dotted(<<"helmchartconfigs">> \o helm),
          Dotted(<<"plans", "upgrade", "cattle", "io">>),
          Dotted(<<"addons", "k3s", "cattle", "io">>) >>,
       << controlPlanes,
          Dotted(<<"etcdsnapshots", "rke", "cattle", "io">>) >>,
       << v1nodes,
          Dotted(<<"nodepools">> \o management),
          Dotted(<<"machines">> \o capi),
          Dotted(<<"machinedeployments">> \o capi) >>,
       << Dotted(<<"clusteradmissionpolicies">> \o kubewarden),
          Dotted(<<"admissionpolicies">> \o kubewarden),
          Dotted(<<"policyservers">> \o kubewarden) >> >>

\* crdGroupIndex as init() leaves it: group and pos count from 0, and of two
\* equal entries the one the loops reach last stays.
crdGroupIndex ==
    [k \in UNION {Range(crdGroups[g]) : g \in DOMAIN crdGroups} |->
        LET gs == {g \in DOMAIN crdGroups : k \in Range(crdGroups[g])}
            gi == CHOOSE g \in gs : \A h \in gs : h <= g
            ps == {p \in DOMAIN crdGroups[gi] : crdGroups[gi][p] = k}
            pi == CHOOSE p \in ps : \A q \in ps : q <= p
        IN  [group |-> gi - 1, pos |-> pi - 1]]

\* strings.Split(s, sep) for a separator of one piece.
RECURSIVE StringsSplit(_, _)
StringsSplit(s, sep) ==
    IF \A k \in DOMAIN s : s[k] # sep THEN <<s>>
    ELSE LET i == CHOOSE k \in DOMAIN s : s[k] = sep /\ \A j \in 1..(k - 1) : s[j] # sep
         IN  <<SubSeq(s, 1, i - 1)>> \o StringsSplit(SubSeq(s, i + 1, Len(s)), sep)

\* parseCRDEntry(entry): <<navCmd, labelSelector, hasFilter>>
parseCRDEntry(entry) ==
    IF \E k \in DOMAIN entry : entry[k] = "|"
    THEN LET idx == CHOOSE k \in DOMAIN entry :
                       entry[k] = "|" /\ \A j \in 1..(k - 1) : entry[j] # "|"
         IN  <<SubSeq(entry, 1, idx - 1), SubSeq(entry, idx + 1, Len(entry)), TRUE>>
    ELSE <<entry, <<>>, FALSE>>

\* gvrToAliasKey(gvrStr): the keys it may return. The loop over the map
\* returns the first key with the prefix in the order of the iteration,
\* which Go leaves open.
gvrToAliasKey(gvrStr) ==
    LET parts == StringsSplit(gvrStr, "/")
        prefix == gvrStr \o <<"|">>
        \* strings.HasPrefix(k, prefix)
        HasPrefix(k) == Len(prefix) <= Len(k) /\ SubSeq(k, 1, Len(prefix)) = prefix
    IN  IF gvrStr \in DOMAIN crdGroupIndex THEN {gvrStr}
        ELSE IF Len(parts) = 3 THEN {parts[3] \o <<".">> \o parts[1]}
        ELSE IF Len(parts) = 2 /\ \E k \in DOMAIN crdGroupIndex : HasPrefix(k)
        THEN {k \in DOMAIN crdGroupIndex : HasPrefix(k)}
        ELSE {gvrStr}

\* nextCRDInGroup(aliasKey): <<navCmd, labelSelector, found>>
nextCRDInGroup(key) ==
    IF key \notin DOMAIN crdGroupIndex THEN << <<>>, <<>>, FALSE >>
    ELSE LET entry == crdGroupIndex[key]
             grp == crdGroups[entry.group + 1]
         IN  IF Len(grp) < 2 THEN << <<>>, <<>>, FALSE >>
             ELSE LET next == (entry.pos + 1) % Len(grp)
                      parsed == parseCRDEntry(grp[next + 1])
                  IN  <<parsed[1], parsed[2], TRUE>>

\* prevCRDInGroup(aliasKey): <<navCmd, labelSelector, found>>
prevCRDInGroup(key) ==
    IF key \notin DOMAIN crdGroupIndex THEN << <<>>, <<>>, FALSE >>
    ELSE LET entry == crdGroupIndex[key]
             grp == crdGroups[entry.group + 1]
         IN  IF Len(grp) < 2 THEN << <<>>, <<>>, FALSE >>
             ELSE LET prev == (entry.pos - 1 + Len(grp)) % Len(grp)
                      parsed == parseCRDEntry(grp[prev + 1])
                  IN  <<parsed[1], parsed[2], TRUE>>

\* The GVRs of the views the arrow keys are first pressed in: every key of
\* crdGroupIndex, the full paths (group/version/resource) of some of them,
\* and resources of no group.
TabInputs ==
    LET Gvr(group, version, resource) == Dotted(group) \o <<"/", version, "/", resource>>
    IN  DOMAIN crdGroupIndex \cup
        { Gvr(<<"fleet", "cattle", "io">>, "v1alpha1", "gitrepos"),
          Gvr(<<"kubevirt", "io">>, "v1", "virtualmachines"),
          Gvr(<<"rke", "cattle", "io">>, "v1", "etcdsnapshots"),
          Gvr(<<"cluster", "x-k8s", "io">>, "v1beta1", "machinedeployments"),
          Gvr(<<"apps">>, "v1", "deployments"),
          <<"v1", "/", "pods">> }

InitTab ==
    /\ op = "tab"
    /\ CodecIdle
    /\ BatchIdle
    /\ ConnIdle
    /\ TextIdle
    /\ RegIdle
    /\ FileIdle
    /\ silent = {}
    /\ \E gvrStr \in TabInputs : aliasKey \in gvrToAliasKey(gvrStr)
    /\ nav = <<>>
    /\ trail = << <<"start", aliasKey>> >>

\* The right arrow in a CRD view: nextCRDInGroup of the view's key; when it
\* found an entry the view of its navigation command comes on screen, and the
\* key of that view is what gvrToAliasKey makes of the command.
TabNext ==
    /\ op = "tab"
    /\ Len(trail) <= MaxTabs
    /\ nav' = nextCRDInGroup(aliasKey)
    /\ IF nav'[3]
       THEN /\ aliasKey' \in gvrToAliasKey(nav'[1])
            /\ trail' = Append(trail, <<"next", aliasKey'>>)
       ELSE UNCHANGED <<aliasKey, trail>>
    /\ UNCHANGED <<op, textVars, silent, regVars, fileVars, codecVars, batchVars, connVars>>

\* The left arrow in a CRD view: the same with prevCRDInGroup.
TabPrev ==
    /\ op = "tab"
    /\ Len(trail) <= MaxTabs
    /\ nav' = prevCRDInGroup(aliasKey)
    /\ IF nav'[3]
       THEN /\ aliasKey' \in gvrToAliasKey(nav'[1])
            /\ trail' = Append(trail, <<"prev", aliasKey'>>)
       ELSE UNCHANGED <<aliasKey, trail>>
    /\ UNCHANGED <<op, textVars, silent, regVars, fileVars, codecVars, batchVars, connVars>>

NextTab == TabNext \/ TabPrev

SpecTab == InitTab /\ [][NextTab]_vars

\* ------------------------------------------------------------------------
\* Every scenario

Init ==
    \/ InitCodec
    \/ InitInject
    \/ InitFormat
    \/ InitRegistry
    \/ InitBatch
    \/ InitListLong
    \/ InitVersionsLong
    \/ InitTimed
    \/ InitConn
    \/ InitFile
    \/ InitTab

Next ==
    \/ NextCodec
    \/ NextInject
    \/ NextFormat
    \/ NextRegistry
    \/ NextBatch
    \/ Tick
    \/ NextConn
    \/ NextFile
    \/ NextTab

Spec == Init /\ [][Next]_vars

\* ------------------------------------------------------------------------
\* Properties

\* The bag of the elements of the sequence q.
SeqBag(q) == [x \in Range(q) |-> Cardinality({k \in DOMAIN q : q[k] = x})]

\* The tasks that have been admitted and have not finished: the goroutines
\* that have not yet given their token back.
InFlight == BagCardinality([w \in {v \in Goroutines : v.at # "done"} |-> pool[w]])

\* sep occurs in q at the 0-based index k.
OccursAt(q, sep, k) ==
    /\ k + Len(sep) <= Len(q)
    /\ \A j \in 1..Len(sep) : q[k + j] = sep[j]

Contains(q, sep) == \E k \in 0..Len(q) : OccursAt(q, sep, k)

\* C1: in MultiContextList (bound 10) and in RunParallel (bound maxProc, 10
\* when maxProc <= 0) the number of tasks admitted and not yet finished never
\* exceeds the bound, whatever the number of contexts.
C1_BoundedParallelism ==
    /\ op = "list" => InFlight <= 10
    /\ op = "run" => InFlight <= (IF maxProc <= 0 THEN 10 ELSE maxProc)

\* C1, its case: ten tasks of MultiContextList are in flight and the launch
\* loop still has a context to admit.
C1_Saturated ==
    /\ op = "list"
    /\ InFlight = 10
    /\ launched < Len(contexts)

\* C2: when RunParallel returns, results[k].Context = contexts[k] for every k,
\* and results[k] is what the task of contexts[k] produced (the stdout of
\* kubectl run for that context, or its error), whatever the order in which
\* the tasks completed.
C2_OrderPreserved ==
    (op = "run" /\ pc = "returned") =>
        /\ ret = <<results>>
        /\ Len(results) = Len(contexts)
        /\ \A k \in 1..Len(contexts) :
              /\ results[k].Context = contexts[k]
              /\ \/ /\ results[k].Err = NilErr
                    /\ results[k].Output = Stdout(injectContext(args, contexts[k]))
                 \/ /\ results[k].Err # NilErr
                    /\ results[k].Err = ErrorOf(results[k].Output)

\* C2, its case: the call has returned and the task of the last context
\* completed first.
C2_LastCompletedFirst ==
    /\ op = "run"
    /\ pc = "returned"
    /\ Len(contexts) >= 2
    /\ firstDone = Len(contexts)

\* The objects MultiContextList owes its caller: those of every task that
\* succeeded, tagged with the task's context, once per such task.
OwedObjects ==
    LET owed == {x \in [Context : Range(contexts), Object : {"p1", "p2"}] :
                    /\ x.Object \in Range(Items(x.Context))
                    /\ BagIn(<<x.Context, TRUE>>, outcome)}
    IN  [x \in owed |-> CopiesIn(<<x.Context, TRUE>>, outcome)]

\* C3: whatever contexts fail, MultiContextList returns exactly the objects
\* of the contexts that succeeded, each tagged with its context and once
\* (per task that fetched it), no object of a failed context, and a nil error.
C3_FailureIsolation ==
    (op = "list" /\ pc = "returned") =>
        /\ ret = <<out, NilErr>>
        /\ SeqBag(out) = OwedObjects
        /\ \A k \in DOMAIN out : BagIn(<<out[k].Context, TRUE>>, outcome)

\* C3, its case: of three contexts exactly "b" failed, and the list holds
\* the objects of the other two.
C3_OneOfThreeFailed ==
    /\ op = "list"
    /\ pc = "returned"
    /\ contexts = <<"a", "b", "c">>
    /\ outcome = SetToBag({<<"a", TRUE>>, <<"b", FALSE>>, <<"c", TRUE>>})
    /\ out # <<>>

\* C4: a batch returns only after every task it dispatched has produced its
\* outcome: once MultiContextList, MultiContextServerVersions or RunParallel
\* has returned, every task has ended its work, its result has been taken,
\* and no goroutine is left that could still produce one.
C4_SynchronousCompletion ==
    (op \in {"list", "versions", "run"} /\ pc = "returned") =>
        /\ launched = Len(contexts)
        /\ BagCardinality(outcome) = Len(contexts)
        /\ ch = <<>>
        /\ \A w \in Goroutines : op = "list" /\ w.at = "release"
        /\ op = "run" => \A k \in 1..Len(contexts) : results[k] # ZeroResult

\* C4, its case: RunParallel has returned from a batch of MaxCtx tasks.
C4_RunReturned ==
    /\ op = "run"
    /\ pc = "returned"
    /\ Len(contexts) >= 3
    /\ BagCardinality(outcome) = Len(contexts)

\* C5: the map MultiContextServerVersions returns has exactly the requested
\* context names as keys; a key's value is the server's version when its
\* probe succeeded, "N/A" when it failed.
C5_OneEntryPerContext ==
    (op = "versions" /\ pc = "returned") =>
        /\ ret = <<out>>
        /\ DOMAIN out = Range(contexts)
        /\ \A c \in DOMAIN out :
              \/ out[c] = <<"v1.30", c>> /\ BagIn(<<c, TRUE>>, outcome)
              \/ out[c] = <<"N/A">> /\ BagIn(<<c, FALSE>>, outcome)

\* C5, its case: of three contexts one probe failed and two succeeded.
C5_OneProbeFailed ==
    /\ op = "versions"
    /\ pc = "returned"
    /\ Len(contexts) = 3
    /\ out["b"] = <<"N/A">>
    /\ out["a"] # <<"N/A">>
    /\ out["c"] # <<"N/A">>

\* No probe is under way: every loop that made one has evaluated it.
ProbesEvaluated ==
    \A l \in 1..MaxLoops : loops[l].at \notin {"stop0", "stop", "check0", "check"}

\* C6: after MaxConnRetry consecutive failed connectivity probes the
\* supervisor has ended the session, with ExitStatus the lost-connection
\* message and BailOut(1).
C6_BailsAfterMaxFailures ==
    (op = "conn" /\ ProbesEvaluated /\ failStreak >= maxConnRetry) =>
        /\ exit = <<1>>
        /\ ExitStatus = LostConnection(maxConnRetry)

\* A probe of refreshCluster has just seen CheckConnectivity succeed.
ProbeSucceeded ==
    /\ \E l \in 1..MaxLoops :
          /\ loops[l].at \in {"start", "due"}
          /\ loops'[l].at \in {"check0", "check"}
          /\ loops'[l].ok

\* C7: a single successful probe resets the counter: after refreshCluster has
\* seen CheckConnectivity succeed, conRetry = 0 and ConOK() is true, whatever
\* the failures before it.
C7_SuccessResets == [][ProbeSucceeded => (conRetry' = 0 /\ ConOK')]_vars

\* C7, its case: a probe succeeded after at least one failure had been
\* counted (the "K8s connectivity OK" status is shown only then).
C7_RecoveredAfterFailures ==
    /\ op = "conn"
    /\ maxConnRetry > 1
    /\ flash = <<"info">>
    /\ conRetry = 0
    /\ failStreak = 0

\* C8: for a context name and a path neither of which contains "@@",
\* SplitMultiContextID(JoinMultiContextID(c, p)) = (c, p).
C8_RoundTrip ==
    (/\ op = "codec"
     /\ joined # <<>>
     /\ split # <<>>
     /\ ~Contains(joined[1], <<"@", "@">>)
     /\ ~Contains(joined[2], <<"@", "@">>)) => split = joined

\* C9: SplitMultiContextID of an id without "@@" (the empty id and ids
\* shorter than the separator included) returns ("", id).
C9_NoSeparator ==
    (op = "codec" /\ split # <<>> /\ ~Contains(id, <<"@", "@">>)) =>
        split = << <<>>, id >>

\* C9, its case: an id shorter than the separator, made of its character.
C9_ShortId ==
    /\ op = "codec"
    /\ split # <<>>
    /\ id = <<"@">>

\* C10: SplitMultiContextID of an id that contains "@@" splits at the first
\* occurrence: the context is what precedes it, the path all that follows it.
C10_FirstOccurrence ==
    (op = "codec" /\ split # <<>> /\ Contains(id, <<"@", "@">>)) =>
        \E k \in 0..Len(id) :
            /\ OccursAt(id, <<"@", "@">>, k)
            /\ \A j \in 0..(k - 1) : ~OccursAt(id, <<"@", "@">>, j)
            /\ split[1] = SubSeq(id, 1, k)
            /\ split[2] = SubSeq(id, k + 3, Len(id))

\* C10, its case: the id holds a second separator, which stays in the path.
C10_LaterSeparator ==
    /\ op = "codec"
    /\ split # <<>>
    /\ Contains(split[2], <<"@", "@">>)
    /\ split[1] # <<>>

\* The index of the first "--" of the argument list a, Len(a) + 1 if it has none.
FirstSeparator(a) ==
    LET dd == {k \in 1..Len(a) : a[k] = "--"}
    IN  IF dd = {} THEN Len(a) + 1 ELSE CHOOSE k \in dd : \A j \in dd : k <= j

\* C11: injectContext(args, ctx) is args with the two tokens "--context", ctx
\* inserted once: immediately before the first "--" when args has one, else
\* at the end (["--context", ctx] for empty args); the tokens of args keep
\* their order.
C11_InjectedOnce ==
    (op = "inject" /\ local # <<>>) =>
        LET i == FirstSeparator(argv)
        IN  /\ Len(local) = Len(argv) + 2
            /\ \A k \in 1..(i - 1) : local[k] = argv[k]
            /\ local[i] = "--context"
            /\ local[i + 1] = contextArg
            /\ \A k \in i..Len(argv) : local[k + 2] = argv[k]

\* C11, its case: the arguments hold "--" twice, the first not in front, and
\* injectContext has returned.
C11_TwoSeparators ==
    /\ op = "inject"
    /\ local # <<>>
    /\ argv = <<"get", "--", "--">>

\* The slots of results a task has written.
FilledSlots == {k \in DOMAIN results : results[k] # ZeroResult}

\* The bag of <<context, succeeded>> the written slots of results tell.
SlotOutcomes ==
    LET told(k) == <<results[k].Context, results[k].Err = NilErr>>
    IN  [x \in {told(k) : k \in FilledSlots} |->
            Cardinality({k \in FilledSlots : told(k) = x})]

\* C12: RunParallel returns exactly len(contexts) results. A task whose
\* command fails records the error in its own slot and in no other: the
\* slots tell exactly the failures and successes that happened, each under
\* its own context, a completing task writes one slot, every task fills its
\* slot before the return, and what is returned is the slice alone, with no
\* error of the call.
C12_FailureInOwnSlot ==
    /\ [](op = "run" =>
            /\ Len(results) = Len(contexts)
            /\ \A k \in FilledSlots : results[k].Context = contexts[k]
            /\ SlotOutcomes = outcome
            /\ pc = "returned" =>
                  /\ ret = <<results>>
                  /\ FilledSlots = 1..Len(contexts))
    /\ [][op = "run" =>
            \A k \in DOMAIN results :
                results'[k] # results[k] =>
                    /\ \E w \in Goroutines : w.at = "run" /\ w.idx = k
                    /\ \A j \in DOMAIN results \ {k} : results'[j] = results[j]]_vars

\* C12, its case: of three tasks the second failed, and RunParallel returned.
C12_MiddleTaskFailed ==
    /\ op = "run"
    /\ pc = "returned"
    /\ Len(contexts) = 3
    /\ results[1].Err = NilErr
    /\ results[2].Err # NilErr
    /\ results[3].Err = NilErr

\* The goroutines of the registry scenario that began after a call for their
\* name had succeeded, with no reset since.
LaterCalls ==
    {w \in Goroutines : op = "registry" /\ w.after # {} /\ w.epoch = resets}

\* C13: after dynClientFor(name) has succeeded, every later dynClientFor(name)
\* with no ResetDynClientCache in between constructs no client and returns
\* the handle the earlier call returned.
C13_SameCachedHandle ==
    \A w \in LaterCalls :
        /\ w.at \notin {"build", "store", "release"}
        /\ w.at = "list" => w.after = {w.dc}

\* C14: after ResetDynClientCache has returned the cache holds no entry, and
\* the next dynClientFor for each name constructs a new handle: whatever the
\* cache holds after a reset was constructed after that reset.
C14_NothingSurvivesReset ==
    (op = "registry" /\ resets > 0 /\ exit = <<>>) =>
        \A c \in DOMAIN dynClientCache : dynClientCache[c][2] > resetAt[c]

\* dynClientFor fails in this step on behalf of the goroutine w.
FailsNow(w) ==
    /\ w.at = "build"
    /\ pool' = Move(pool, w, [w EXCEPT !.at = "release"])

\* C15: a dynClientFor(name) that fails stores no entry for name and leaves
\* the entries of the other names as they are (the cache is the same before
\* and after); no failure is ever cached (every entry is a client that was
\* constructed), so that a later call for the name constructs again.
C15_FailureLeavesCache ==
    /\ [][op = "registry" =>
            \A w \in Goroutines : FailsNow(w) => dynClientCache' = dynClientCache]_vars
    /\ [](op = "registry" =>
            \A c \in DOMAIN dynClientCache :
                \E n \in 1..built[c] : dynClientCache[c] = <<c, n>>)

\* C15, its case: a call for "a" failed while the cache held a client for
\* "b", and a later call for "a" has constructed a client.
C15_RetriedAfterFailure ==
    /\ op = "registry"
    /\ "b" \in DOMAIN dynClientCache
    /\ \E w \in Goroutines : w.ctx = "a" /\ w.failed /\ w.at = "store"

\* C16: in MultiContextServerVersions no probe lasts longer than the
\* per-task timeout of 5 seconds; the task of a context whose server never
\* answers yields "N/A"; and the batch returns, also when contexts are
\* unreachable forever.
C16_ProbeEndsByTimeout ==
    /\ [](op = "versions" => \A w \in Goroutines : w.t <= 5)
    /\ []((op = "versions" /\ pc = "returned") =>
            \A c \in silent : out[c] = <<"N/A">>)
    /\ <>(op = "versions" /\ pc = "returned")

\* C16, its case: none of three servers ever answers, and the batch has
\* returned.
C16_AllUnreachable ==
    /\ op = "versions"
    /\ pc = "returned"
    /\ silent = {"a", "b", "c"}

\* The section the report owes the result r: the header line (after a line
\* break), the underline of as many dashes, then the output, or the marked
\* line of a failed result.
SectionOf(r) ==
    LET dashes == [k \in 1..Len(r.Context) |-> "-"]
        body == IF r.Err = <<FALSE, <<>> >>
                THEN r.Output
                ELSE <<" ", " ", "(", "e", "r", "r", "o", "r", ")", " ">> \o r.Output \o <<"\n">>
    IN  <<"\n">> \o r.Context \o <<"\n">> \o dashes \o <<"\n">> \o body

\* Where the section of the k-th result begins in the report (0-based).
RECURSIVE SectionStart(_)
SectionStart(k) ==
    IF k = 1 THEN 0 ELSE SectionStart(k - 1) + Len(SectionOf(toFormat[k - 1]))

\* C17: the report of FormatResults is one section per result, in the order
\* of the input, nothing else: header line, underline of the same length,
\* then the Output as it is when Err is nil, or "  (error) " and the Output
\* on a line when it is not.
C17_OneSectionPerResult ==
    (op = "format" /\ report # <<>>) =>
        LET text == report[1]
            n == Len(toFormat)
        IN  /\ Len(text) = SectionStart(n + 1)
            /\ \A k \in 1..n :
                  SubSeq(text, SectionStart(k) + 1, SectionStart(k + 1))
                      = SectionOf(toFormat[k])

\* C17, its case: a failed result is followed by one that succeeded, and
\* the report is made.
C17_ErrorThenOutput ==
    /\ op = "format"
    /\ report # <<>>
    /\ Len(toFormat) = 2
    /\ toFormat[1].Err # NilErr
    /\ toFormat[1].Context = <<"a", "b">>
    /\ toFormat[2].Err = NilErr
    /\ toFormat[2].Output # <<>>

\* C18: during a MultiContextServerVersions batch never more than 10 probe
\* tasks run at the same time.
C18_VersionsBounded == op = "versions" => InFlight <= 10

\* The goroutines of RunParallel whose task is under way or about to give
\* its token back.
Holding == {w \in Goroutines : w.at \in {"run", "release"}}

\* C19: with maxProc = 1 RunParallel runs the tasks one after the other in
\* the order of contexts: while the task of contexts[i+1] is started, the
\* tasks of all contexts before it have finished and stored their results,
\* no two tasks are started at once, and at return the results are
\* positional.
C19_Serialized ==
    (op = "run" /\ maxProc = 1) =>
        /\ \A w \in Holding :
              /\ pool[w] = 1
              /\ \A v \in Holding : v = w
              /\ \A k \in 1..(w.idx - 1) : results[k] # ZeroResult
              /\ \A k \in (w.idx + 1)..Len(contexts) : results[k] = ZeroResult
        /\ pc = "returned" =>
              \A k \in 1..Len(contexts) : results[k].Context = contexts[k]

\* C19, its case: with maxProc = 1 the third task runs, the first two have
\* stored their results.
C19_ThirdTaskRuns ==
    /\ op = "run"
    /\ maxProc = 1
    /\ \E w \in Goroutines : w.at = "run" /\ w.idx = 3

\* The loop l, its timer due, begins a further connectivity probe
\* (refreshCluster) in this step.
StartsProbe(l) ==
    /\ loops[l].at = "due"
    /\ loops'[l].at \in {"stop", "check"}

\* C20: once Halt has cancelled the context of a clusterUpdater, that loop
\* starts no further connectivity probe, also when its timer is due.
C20_NoProbeAfterCancel ==
    [][op = "conn" =>
          \A l \in 1..MaxLoops : loops[l].cancelled => ~StartsProbe(l)]_vars

\* A name that LoadSelectedContexts reads back as it was written: not empty,
\* no newline in it, no white space at either end.
CleanName(n) == n # <<>> /\ TrimSpace(n) = n /\ \A k \in DOMAIN n : n[k] # "\n"

CleanList(ctxs) == \A k \in DOMAIN ctxs : CleanName(ctxs[k])

\* The list the file held before the SaveSelectedContexts at hand: the nil
\* list when the file did not exist.
OldList == IF prior = <<>> THEN <<>> ELSE prior[1]

\* C21: a LoadSelectedContexts that runs while a SaveSelectedContexts is
\* rewriting the file returns the complete old list or the complete new
\* list, never an empty or partial one.
C21_LoadSeesOldOrNew ==
    (/\ op = "file"
     /\ loaded # <<>>
     /\ loaded.during
     /\ ~loaded.err
     /\ CleanList(OldList)
     /\ CleanList(saving.ctxs))
        => loaded.list \in {OldList, saving.ctxs}

\* In this step the loop l has made a connectivity probe and
\* CheckConnectivity has answered false.
ProbeFailed(l) ==
    /\ loops[l].at \in {"start", "due"}
    /\ loops'[l].at \in {"stop0", "stop", "check0", "check"}
    /\ ~loops'[l].ok

\* C22: every failed connectivity probe adds exactly one to conRetry and
\* goes on to stop the top view; none leaves the counter as a success would.
C22_FailureCounted ==
    [][\A l \in 1..MaxLoops :
          (op = "conn" /\ ProbeFailed(l)) =>
              /\ conRetry' = conRetry + 1
              /\ loops'[l].at \in {"stop0", "stop"}]_vars

\* C23: as long as its context is not cancelled and the session has not
\* ended, a clusterUpdater that has made a probe, its first included, comes
\* to make another one.
C23_KeepsProbing ==
    \A l \in 1..MaxLoops :
        [](loops[l].at \in {"check0", "check"} =>
              <>(loops[l].at = "due" \/ loops[l].cancelled \/ exit # <<>>))

\* C24: a successful probe leaves no view paused: after the success branch
\* of refreshCluster the view on top of the stack, which the failed probes
\* before it had stopped, is started.
C24_ResumedAfterSuccess ==
    [][(op = "conn" /\ ProbeSucceeded) => top' # "stopped"]_vars

\* BailOut ends the session in this step.
Terminates == exit = <<>> /\ exit' # <<>>

\* C25: whatever MaxConnRetry is configured, the session is ended only in
\* the Degraded state (conRetry > 0) and after a probe that failed, never
\* on a probe that succeeded; and once it is ended nothing of the
\* supervisor changes any more.
C25_EndsOnlyDegraded ==
    [][op = "conn" =>
          /\ Terminates => (conRetry > 0 /\ failStreak > 0)
          /\ exit # <<>> => UNCHANGED <<conRetry, top, loops, flash, ExitStatus>>]_vars

\* The loop l, back from a probe made in its for loop, goes to wait for the
\* next one in this step.
WaitsAgain(l) == loops[l].at = "check" /\ loops'[l].at = "select"

\* C26: in the for loop of clusterUpdater the wait after a failed probe is
\* the next delay of the backoff, and the wait after a successful probe is
\* the base cadence clusterRefresh.
C26_BackoffAfterFailure ==
    [][\A l \in 1..MaxLoops :
          (op = "conn" /\ WaitsAgain(l)) =>
              loops'[l].delay = IF loops[l].ok THEN "clusterRefresh" ELSE "NextBackOff"]_vars

\* refreshCluster, called by the loop l, comes to its end in this step: it
\* starts the goroutine that reloads the aliases, refreshes the cluster info
\* and returns nil.
StartsReload(l) ==
    /\ loops[l].at \in {"check0", "check"}
    /\ loops'[l].at = "select"
    /\ loops'[l].delay = "clusterRefresh"

\* C27: the aliases are reloaded only after a probe that succeeded, and the
\* reload, failed or not, leaves conRetry and the loop's course alone: a
\* failed probe starts no reload.
C27_ReloadOnlyAfterSuccess ==
    [][\A l \in 1..MaxLoops :
          (op = "conn" /\ StartsReload(l)) =>
              /\ loops[l].ok
              /\ conRetry' = conRetry
              /\ flash' \in {flash, AliasWarn}]_vars

\* Two first-time calls of dynClientFor for the name c have raced, with no
\* reset in the session: each constructed a client, stored it and returned
\* it, and no third call for c is constructing one.
RacedFor(c) ==
    /\ op = "registry"
    /\ resets = 0
    /\ built[c] = 2
    /\ handed[c] = {<<c, 1>>, <<c, 2>>}
    /\ \A w \in Goroutines : w.ctx = c => w.at \notin {"build", "store"}

\* C28: after two concurrent first-time calls for a name have both returned
\* their handle, the cache holds one of the two handles for the name, and
\* every call that begins afterwards constructs nothing and returns the
\* cached one.
C28_OneHandleAfterRace ==
    \A c \in RegNames :
        RacedFor(c) =>
            /\ c \in DOMAIN dynClientCache
            /\ dynClientCache[c] \in handed[c]
            /\ \A w \in Goroutines :
                  (w.ctx = c /\ w.after = handed[c]) =>
                      /\ w.at \in {"load", "list"}
                      /\ w.at = "list" => w.dc = dynClientCache[c]

\* C28, its case: both racing calls have returned, and a call that began
\* afterwards has its handle.
C28_CallAfterRace ==
    \E c \in RegNames :
        /\ RacedFor(c)
        /\ \E w \in Goroutines : w.ctx = c /\ w.after = handed[c] /\ w.at = "list"

\* The goroutines of RunParallel whose command has just ended.
Ran == {w \in Goroutines : w.at = "release"}

\* The message of a command that failed with stderr on its standard error:
\* stderr without the white space around it, or, when nothing is left of it,
\* the error text of the process.
FailureMessage(stderr) ==
    LET inner == {<<i, j>> \in (1..Len(stderr)) \X (1..Len(stderr)) :
                     /\ i <= j
                     /\ stderr[i] \notin {" ", "\n"}
                     /\ stderr[j] \notin {" ", "\n"}
                     /\ \A k \in 1..(i - 1) : stderr[k] \in {" ", "\n"}
                     /\ \A k \in (j + 1)..Len(stderr) : stderr[k] \in {" ", "\n"}}
    IN  IF inner = {}
        THEN <<"exit status 1">>
        ELSE LET ij == CHOOSE x \in inner : TRUE IN SubSeq(stderr, ij[1], ij[2])

\* C29: in RunParallel the result of a task has Err != nil exactly when its
\* command failed. Then Output is the error message, which is the standard
\* error of the command with the white space around it trimmed, or the
\* error text of the process when the trimmed standard error is empty, and
\* Err carries that same message. When the command succeeded, Err is nil and
\* Output is the standard output of the command, whatever it wrote on its
\* standard error.
C29_ErrIffFailed ==
    op = "run" =>
        \A w \in Ran :
            LET r == results[w.idx]
                failed == ~w.cmd[1]
            IN  /\ (r.Err # NilErr) <=> failed
                /\ failed =>
                      /\ r.Output = FailureMessage(w.cmd[2])
                      /\ r.Err[2] = r.Output
                /\ ~failed =>
                      /\ r.Err = NilErr
                      /\ r.Output = <<"output of">> \o injectContext(args, w.ctx)

\* C29, its case: of two commands that failed, one left white space around
\* its message on the standard error and the other left white space alone,
\* while a third succeeded with a message on its standard error.
C29_FailedBothWays ==
    /\ op = "run"
    /\ \E w \in Ran : w.cmd = <<FALSE, <<" ", "boom", "\n">> >>
    /\ \E w \in Ran : w.cmd = <<FALSE, <<" ", "\n">> >>
    /\ \E w \in Ran : w.cmd = <<TRUE, <<" ", "boom", "\n">> >>

\* The goroutines whose list call or kubectl never ends.
Hung == {w \in Goroutines : w.ctx \in silent /\ w.at \in {"list", "run"}}

\* The task of contexts[k] has been started and its goroutine has ended.
Completed(k) ==
    /\ launched >= k
    /\ \A w \in Goroutines : w.ctx # contexts[k]

\* The tasks that have been started have completed, but for those of the
\* contexts that never answer.
StartedCompleted == \A k \in 1..launched : contexts[k] \notin silent => Completed(k)

\* The task of every context that answers has completed.
OthersCompleted == \A k \in 1..Len(contexts) : contexts[k] \notin silent => Completed(k)

\* A task that never finishes keeps its token of sem for good, and the call
\* that dispatched it never returns.
HungForGood ==
    /\ [][\A w \in Hung : w \in Hung']_vars
    /\ [](Hung # {} => (sem >= Cardinality(Hung) /\ pc # "returned" /\ ret = <<>>))

\* C30: MultiContextList and RunParallel put no time limit on a task. A task
\* that never finishes keeps its token of the semaphore for good and the call
\* that dispatched it never returns. Every other task that has been started
\* completes, and all the other tasks of the batch complete when the tasks
\* that never finish are fewer than the tokens of the semaphore, so that the
\* launch loop is never left waiting for one.
C30_HungTaskBlocksCall ==
    /\ HungForGood
    /\ <>[]StartedCompleted
    /\ <>(Cardinality(silent) >= SemCap \/ OthersCompleted)

\* C30, its case: of two tasks one never finishes and holds the one token
\* taken, while the other has completed.
C30_OneHungOthersDone ==
    /\ Len(contexts) = 2
    /\ Cardinality(Hung) = 1
    /\ sem = 1
    /\ OthersCompleted

\* C30 as stated: whatever the width of the semaphore, the other tasks of
\* the batch complete while one task never finishes.
C30_OthersAlwaysComplete ==
    /\ HungForGood
    /\ <>OthersCompleted

\* The names whose entry of dynClientCache this step writes.
Published == {c \in DOMAIN dynClientCache' :
                 c \notin DOMAIN dynClientCache \/ dynClientCache'[c] # dynClientCache[c]}

\* C31: once ResetDynClientCache has completed, no dynClientFor publishes a
\* handle that was constructed before the reset: a call that was in flight
\* when the reset ran (it had missed Load and was constructing its client)
\* stores nothing that later callers could load.
C31_NoPreResetPublish ==
    [][(op = "registry" /\ resets > 0 /\ exit = <<>>) =>
          \A c \in Published : dynClientCache'[c][2] > resetAt[c]]_vars

\* The steps a goroutine at the position at has yet to take before it ends.
StepsLeft(at) ==
    CASE at = "load"    -> 5
      [] at = "build"   -> 4
      [] at = "store"   -> 3
      [] at = "list"    -> 2
      [] at = "run"     -> 3
      [] at = "release" -> IF op = "run" THEN 2 ELSE 1
      [] OTHER          -> 1

RECURSIVE SumStepsLeft(_)
SumStepsLeft(ws) ==
    IF ws = {} THEN 0
    ELSE LET w == CHOOSE v \in ws : TRUE
         IN  StepsLeft(w.at) * pool[w] + SumStepsLeft(ws \ {w})

\* A bound on the steps the call has yet to take: those of the launch loop,
\* of the goroutines under way, of the collecting loop, and the return.
WorkLeft ==
    (Len(contexts) - launched) * 7
    - (IF pc = "acquire" THEN 1 ELSE 0)
    + SumStepsLeft(Goroutines)
    + (IF op = "list" THEN Len(contexts) - got ELSE 0)
    + (IF pc = "returned" THEN 0 ELSE 1)

\* The goroutines that have yet to deliver their result.
Undelivered ==
    BagCardinality([w \in {v \in Goroutines : v.at \notin {"release", "done"}} |-> pool[w]])

\* The results delivered so far: sent on ch (received or not) by the tasks
\* of MultiContextList, written to results by those of RunParallel.
Delivered ==
    IF op = "list" THEN got + Len(ch)
    ELSE Cardinality({k \in DOMAIN results : results[k] # ZeroResult})

\* C32: MultiContextList and RunParallel cannot deadlock, whatever the number
\* of contexts (none, fewer than the bound, more than the bound), when the
\* operation of every task terminates. Until the call has returned and every
\* goroutine has ended some step can be taken, and every step brings the end
\* nearer (WorkLeft decreases and is never negative), so that the launch
\* loop, the workers and the collecting loop terminate. Every worker whose
\* work has ended has delivered exactly one result, and the channel of
\* MultiContextList always has room for the result a worker sends.
C32_NoDeadlock ==
    /\ []((op \in {"list", "run"} /\ (pc # "returned" \/ pool # EmptyBag)) =>
            ENABLED (NextList \/ NextRun))
    /\ [](op \in {"list", "run"} =>
            /\ WorkLeft >= 0
            /\ Delivered + Undelivered = launched
            /\ Len(ch) <= Len(contexts)
            /\ pc = "returned" => Delivered = Len(contexts))
    /\ [][(op = "list" \/ op = "run") => WorkLeft' < WorkLeft]_vars

\* C32, its case: a list over more contexts than the semaphore is wide has
\* returned, with a task that failed to list, and every goroutine has ended.
C32_LongListReturned ==
    /\ op = "list"
    /\ Len(contexts) > mcMaxParallel
    /\ pc = "returned"
    /\ pool = EmptyBag
    /\ BagIn(<<contexts[1], FALSE>>, outcome)

\* C33: the tokens of the semaphore are conserved. In MultiContextList and in
\* RunParallel the tokens held are at all times as many as the tasks admitted
\* and not yet finished; a step changes the count by one at most, up when a
\* task is admitted and down when a task gives its token back, which every
\* task does once, however its work ended (client error, list error, command
\* failure, success); and when every task of the batch has finished, no
\* token is held.
C33_SlotsConserved ==
    /\ []((op = "list" \/ op = "run") =>
            /\ sem = InFlight
            /\ (launched = Len(contexts) /\ InFlight = 0) => sem = 0)
    /\ [][(op = "list" \/ op = "run") =>
            /\ sem' - sem = InFlight' - InFlight
            /\ sem' - sem \in {-1, 0, 1}
            /\ (sem' > sem) <=> (launched' = launched + 1)
            /\ (sem' < sem) <=>
                  \E w \in Goroutines :
                      w.at = "release" /\ CopiesIn(w, pool') < CopiesIn(w, pool)]_vars

\* C33, its case: of the two tasks of a list one ended with a client error
\* and the other with a list error; both have finished and no token is held.
C33_AllPathsReleased ==
    /\ op = "list"
    /\ Len(contexts) = 2
    /\ Len(ch) = 2
    /\ \E k \in 1..2 : ch[k].err = ErrorOf(<<"rest config", ch[k].ctx>>)
    /\ \E k \in 1..2 : ch[k].err = ErrorOf(<<"list", ch[k].ctx>>)
    /\ pool = EmptyBag
    /\ sem = 0

\* C34: the supervisor ends the session (BailOut) only when the count of
\* consecutive failures has reached MaxConnRetry: in every step of
\* clusterUpdater or refreshCluster that ends the session, conRetry is
\* MaxConnRetry or more.
C34_BailsOnlyWhenExhausted ==
    [][(op = "conn" /\ Terminates) => conRetry >= maxConnRetry]_vars

\* The supervisor loops that run and whose context is not cancelled.
LiveLoops == {l \in 1..MaxLoops : loops[l].at \notin {"none", "dead"} /\ ~loops[l].cancelled}

\* Halt cancels a context in this step.
Halts == cancelFn # 0 /\ cancelFn' = 0

\* C35: after any sequence of Resume and Halt calls at most one
\* clusterUpdater runs with a context that is not cancelled, and a Halt
\* leaves no loop of an earlier Resume running with a context that is not
\* cancelled.
C35_OneLiveLoop ==
    /\ [](op = "conn" => Cardinality(LiveLoops) <= 1)
    /\ [][(op = "conn" /\ Halts) =>
             \A l \in 1..MaxLoops :
                 loops'[l].at \notin {"none", "dead"} => loops'[l].cancelled]_vars

\* C36: for MaxConnRetry >= 1, as long as the session runs conRetry stays
\* between 0 and MaxConnRetry, and it changes only by one up in a step in
\* which a probe failed, or to 0 in a step in which a probe succeeded.
C36_RetryInRange ==
    /\ []((op = "conn" /\ maxConnRetry >= 1 /\ exit = <<>>) =>
            (0 <= conRetry /\ conRetry <= maxConnRetry))
    /\ [][(op = "conn" /\ maxConnRetry >= 1 /\ conRetry' # conRetry) =>
             \/ conRetry' = conRetry + 1 /\ \E l \in 1..MaxLoops : ProbeFailed(l)
             \/ conRetry' = 0 /\ ProbeSucceeded]_vars

\* How many tokens of the list a are tok.
CountOf(a, tok) == Cardinality({k \in DOMAIN a : a[k] = tok})

\* The values the "--context" flags of the command line a are given, the
\* flags being the tokens in front of the first "--".
ContextFlags(a) ==
    {a[k + 1] : k \in {j \in 1..(Len(a) - 1) :
                          /\ a[j] = "--context"
                          /\ \A i \in 1..j : a[i] # "--"}}

\* The goroutines of RunParallel whose command has just run, with their
\* arguments at hand.
Commanded == {w \in Goroutines : w.at = "release"}

\* The tasks of RunParallel leave the argument list of the caller alone.
ArgsUntouched == [][op = "run" => args' = args]_vars

C38_SplitThenJoin ==
    (op = "codec" /\ split # <<>> /\ Contains(id, <<"@", "@">>)) =>
        JoinMultiContextID(split[1], split[2]) = id

\* C38, its case: an id with overlapping separators and text on both sides
\* has been split.
C38_OverlappingSeparators ==
    /\ op = "codec"
    /\ split # <<>>
    /\ id = <<"x", "@", "@", "@">>
    /\ split[2] = <<"@">>

\* LoadSelectedContexts returns in this step.
Loads == loaded = <<>> /\ loaded' # <<>>

\* A SaveSelectedContexts has returned nil.
Saved == saving # <<>> /\ saving.at = "returned" /\ ~saving.err

\* C39: a LoadSelectedContexts that reads the file after SaveSelectedContexts
\* has written a list of clean names (not empty, no newline, no white space at
\* either end) returns the same names in the same order; a missing file and a
\* saved empty list load as the empty list with no error.
C39_SaveThenLoad ==
    [][(op = "file" /\ Loads) =>
          /\ (Saved /\ CleanList(saving.ctxs) /\ ~loaded'.err) =>
                loaded'.list = saving.ctxs
          /\ file = <<>> => (loaded'.list = <<>> /\ ~loaded'.err)
          /\ (Saved /\ saving.ctxs = <<>>) => loaded'.list = <<>>]_vars

\* C39, its case: two names were saved over a file that held another list,
\* and a load made after the save has returned them in their order.
C39_TwoNamesLoaded ==
    /\ op = "file"
    /\ saving # <<>> /\ saving.at = "returned" /\ ~saving.err
    /\ saving.ctxs = << <<"b">>, <<"a">> >>
    /\ prior = << << <<"a">> >> >>
    /\ loaded # <<>>
    /\ ~loaded.during
    /\ loaded.list = << <<"b">>, <<"a">> >>

\* The keys of crdGroupIndex: the entries of the groups.
CrdKeys == DOMAIN crdGroupIndex

\* The group of the crdGroupIndex key k, counted from 0.
GroupOf(k) == crdGroupIndex[k].group

\* The keys of the views the arrow keys have led through, the first included.
Visited == {trail[k][2] : k \in DOMAIN trail}

\* Every arrow key pressed so far was dir.
Only(dir) == \A k \in 2..Len(trail) : trail[k][1] = dir

\* C40: CRD tab cycling stays inside one group. An arrow key pressed in the
\* view of an entry of a group leads to a view whose key, gvrToAliasKey of the
\* navigation command, is an entry of the same group, one position further
\* for next and one back for prev, cyclically; a next followed by a prev, or a
\* prev followed by a next, leads back; and as many next (or prev) as the
\* group has entries visit exactly the entries of the group.
C40_CyclesInsideGroup ==
    /\ [][(op = "tab" /\ trail' # trail /\ aliasKey \in CrdKeys) =>
             /\ aliasKey' \in CrdKeys
             /\ GroupOf(aliasKey') = GroupOf(aliasKey)
             /\ LET n == Len(crdGroups[GroupOf(aliasKey) + 1])
                    step == IF trail'[Len(trail')][1] = "next" THEN 1 ELSE n - 1
                IN  crdGroupIndex[aliasKey'].pos = (crdGroupIndex[aliasKey].pos + step) % n]_vars
    /\ [](op = "tab" =>
             /\ \A k \in 3..Len(trail) :
                   trail[k][1] # trail[k - 1][1] => trail[k][2] = trail[k - 2][2]
             /\ (/\ trail[1][2] \in CrdKeys
                 /\ Only("next") \/ Only("prev")
                 /\ Len(trail) > Len(crdGroups[GroupOf(trail[1][2]) + 1])) =>
                    Visited = Range(crdGroups[GroupOf(trail[1][2]) + 1]))
====
